---- MODULE Spec2Model ----
(***************************************************************************)
(* Terminal bridge (Terminal.cpp, mutf8.cpp): the session object, its      *)
(* recursive lock, the operations the host calls, the engine callbacks     *)
(* they trigger, the cell-run extractor, the colour resolver and the       *)
(* MUTF-8 codec.                                                           *)
(***************************************************************************)
EXTENDS Integers, Sequences, FiniteSets, TLC

(* ------------------------------ bounds -------------------------------- *)
\* deepest nesting of same-thread operations (operation -> host -> operation)
MaxDepth == 2
\* most bytes handed to one writeInput call
MaxInput == 1
\* most codepoints in one codec input
MaxLen == 3
\* widest row of the cell-run scenarios (beyond the run capacity)
MaxCols == 258
\* most lines the host's scrollback store takes
MaxLines == 2

(* -------------------------- program constants ------------------------- *)
\* jchar chars[256]
RunCapacity == 256
\* VTERM_MAX_CHARS_PER_CELL
MaxCharsPerCell == 6
\* chars[0] of the second half of a wide cell, (uint32_t)-1; a 32-bit value
\* is written as the signed integer with the same bits
Placeholder == -1

VARIABLES
    mVt,            \* "vt" or "null": the VTerm instance
    mVts,           \* "vts", "null" or "wild" (never assigned when vterm_new fails)
    mRows, mCols,   \* stored dimensions
    mDamageMethod,  \* TRUE iff the host's damage method was found
    vtRows, vtCols, \* the engine's grid dimensions
    screen,         \* the engine's grid: row -> col -> cell
    colors,         \* the engine's ANSI palette, entries 0..15
    defaultFg, defaultBg, \* the engine's default colours (r,g,b)
    damaged,        \* the engine's pending damage rectangle, or NoRect
    sbBuffer,       \* the engine's line buffer, handed to sb_pushline / sb_popline
    lockOwner, lockCount, \* mLock: owning thread and recursion count
    stack,          \* per thread: the frames of the operations in progress
    utf8, mutf8, back, cpc, \* codec: input, encoded, decoded, phase
    cpp,            \* codec: the decoder's read position, p - mutf8_in
    mHandlers,      \* the host methods found besides damage (their jmethodIDs)
    hostLines,      \* the host's scrollback store, oldest line first
    hostCode,       \* the jint the host's methods return
    life,           \* "alive", or "teardown" once ~Terminal has the lock
    released,       \* what ~Terminal has released so far, in order
    tlsCharArray,   \* per thread: tls_charArray (an array or NoArray) and tls_charArraySize
    charArrays,     \* the jchar arrays in reach: array -> the elements set so far
    runs            \* the host's CellRun objects: object -> chars field and runLength

sessionVars == <<mVt, mVts, mRows, mCols, mDamageMethod>>
engineVars == <<vtRows, vtCols, screen, colors, defaultFg, defaultBg, damaged, sbBuffer>>
lockVars == <<lockOwner, lockCount>>
codecVars == <<utf8, mutf8, back, cpc, cpp>>
hostVars == <<mHandlers, hostLines, hostCode>>
teardownVars == <<life, released>>
poolVars == <<tlsCharArray, charArrays, runs>>
vars == <<sessionVars, engineVars, lockVars, stack, codecVars, hostVars, teardownVars,
         poolVars>>

Threads == {"t1", "t2"}
NoThread == "none"
NoRect == <<>>

Min(a, b) == IF a < b THEN a ELSE b
Max(a, b) == IF a > b THEN a ELSE b

(* ------------------------------ variants ------------------------------ *)
\* Deliberately wrong versions of definitions below. Each property that is
\* said to depend on a definition fails when the variant takes its place.

\* a mutex that admits every thread
CanAcquireAlways(t) == TRUE

\* a mutex that is not recursive
CanAcquireIfFree(t) == lockOwner = NoThread

\* a style comparison that ignores the foreground colour
StyleEqualButFg(a, b) == a.bg = b.bg /\ a.attrs = b.attrs

\* a scan that stops one column early
ScanStopsEarly(c, runLength) == c < mCols - 1 /\ runLength < 256

\* the full-grid rectangle taken from the engine's dimensions
FullGridOfEngine == << 0, vtRows, 0, vtCols >>

\* a push loop that does not skip the column after a width-2 cell
NextColumnNoSkip(cell, i) == i + 1

\* a bell callback that reaches the host twice
invokeBellTwice(f, next) ==
    [f EXCEPT !.pc = "inHost", !.next = next,
              !.sent = @ \o << [kind |-> "bell", a |-> <<>>], [kind |-> "bell", a |-> <<>>] >>]

\* callbacks that all acknowledge, whatever the host said
termReturnAcknowledged(kind, called, result) == IF kind = "output" THEN "void" ELSE 1

\* callbacks that all pass the host's answer on
termReturnPassedOn(kind, called, result) ==
    IF kind = "output" THEN "void" ELSE IF called THEN result ELSE 0

\* a property callback that gives up the input when the host has no method
invokeSetTermPropAborts(f, prop, val, next) ==
    IF "setTermProp" \notin mHandlers THEN [f EXCEPT !.pc = "ret", !.rv = 0]
    ELSE [f EXCEPT !.pc = "inHost", !.next = next,
                   !.sent = Append(@, [kind |-> "setTermProp", a |-> << prop, val.v >>])]

\* a modifier translation with alt and ctrl exchanged
EngineModifierSwapped(m) ==
    (IF m % 2 = 1 THEN 1 ELSE 0) + (IF (m \div 2) % 2 = 1 THEN 4 ELSE 0)
        + (IF (m \div 4) % 2 = 1 THEN 2 ELSE 0)

\* a damage callback that tells the host nothing
invokeDamageDropped(f, rect, next) == [f EXCEPT !.pc = next]

\* a teardown that frees the engine last
TeardownEngineLast == << "mCallbacks", "mCellRunClass", "classes", "engine" >>

\* a decoder pass that never recombines surrogate pairs
NeverSurrogatePair(s, p) == FALSE

(* ------------------------------ colours ------------------------------- *)
\* A VTermColor: the type byte and the three payload bytes of the union
\* (rgb.red/green/blue; indexed.idx shares the first payload byte).
VTermColor(type, b1, b2, b3) == [type |-> type, b1 |-> b1, b2 |-> b2, b3 |-> b3]

ColorIsIndexed(c) == c.type % 2 = 1
ColorIsRgb(c) == c.type % 2 = 0
ColorIsDefaultFg(c) == (c.type \div 2) % 2 = 1
ColorIsDefaultBg(c) == (c.type \div 4) % 2 = 1

\* vterm_color_rgb
ColorRgb(r, g, b) == VTermColor(0, r, g, b)
\* vterm_color_indexed
ColorIndexed(i) == VTermColor(1, i, 0, 0)
\* the engine's copy of its default colours, as a pen (and so a cell) holds it
PenDefaultFg == VTermColor(2, defaultFg[1], defaultFg[2], defaultFg[3])
PenDefaultBg == VTermColor(4, defaultBg[1], defaultBg[2], defaultBg[3])

\* ARGB 0xAARRGGBB -> (r,g,b): (x >> 16) & 0xFF, (x >> 8) & 0xFF, x & 0xFF
ArgbToRgb(x) == << (x \div 65536) % 256, (x \div 256) % 256, x % 256 >>

\* the engine's 6x6x6 cube and grey ramp for entries 16..255
Ramp6(i) == i * 51
PaletteColor(idx) ==
    IF idx < 16 THEN colors[idx]
    ELSE IF idx < 232
         THEN << Ramp6(((idx - 16) \div 36) % 6), Ramp6(((idx - 16) \div 6) % 6),
                 Ramp6((idx - 16) % 6) >>
         ELSE << 8 + (idx - 232) * 10, 8 + (idx - 232) * 10, 8 + (idx - 232) * 10 >>

\* (a variant that takes the bytes of an indexed colour for RGB)
resolveColorIndexAsRgb(color) ==
    IF ColorIsRgb(color) \/ ColorIsIndexed(color) THEN << color.b1, color.b2, color.b3 >>
    ELSE IF ColorIsDefaultFg(color) THEN defaultFg
    ELSE IF ColorIsDefaultBg(color) THEN defaultBg
    ELSE << 128, 128, 128 >>

\* Terminal::resolveColor
resolveColor(color) ==
    IF ColorIsIndexed(color) THEN PaletteColor(color.b1)
    ELSE IF ColorIsRgb(color) THEN << color.b1, color.b2, color.b3 >>
    ELSE IF ColorIsDefaultFg(color) THEN defaultFg
    ELSE IF ColorIsDefaultBg(color) THEN defaultBg
    ELSE << 128, 128, 128 >>

(* ------------------------------- cells -------------------------------- *)
NoAttrs ==
    [bold |-> 0, underline |-> 0, italic |-> 0, blink |-> 0, reverse |-> 0,
     strike |-> 0, font |-> 0, dwl |-> 0, dhl |-> 0]
BoldAttrs == [NoAttrs EXCEPT !.bold = 1]

\* A VTermScreenCell: chars up to the terminating 0, width, colours, attrs
Cell(chars, width, fg, bg, attrs) ==
    [chars |-> chars, width |-> width, fg |-> fg, bg |-> bg, attrs |-> attrs]

\* Terminal::cellStyleEqual (memcmp of both colours, then each attribute)
cellStyleEqual(a, b) ==
    /\ a.fg = b.fg
    /\ a.bg = b.bg
    /\ a.attrs.bold = b.attrs.bold
    /\ a.attrs.underline = b.attrs.underline
    /\ a.attrs.italic = b.attrs.italic
    /\ a.attrs.blink = b.attrs.blink
    /\ a.attrs.reverse = b.attrs.reverse
    /\ a.attrs.strike = b.attrs.strike
    /\ a.attrs.font = b.attrs.font
    /\ a.attrs.dwl = b.attrs.dwl
    /\ a.attrs.dhl = b.attrs.dhl

(* ------------------------------ engine -------------------------------- *)
\* A cell as the engine's screen buffer holds it (no width: the width is
\* derived from the next column when the cell is read).
ScreenCell(chars, fg, bg, attrs) ==
    [chars |-> chars, fg |-> fg, bg |-> bg, attrs |-> attrs]

BlankCell == ScreenCell(<<>>, PenDefaultFg, PenDefaultBg, NoAttrs)
BlankScreen(rows, cols) == [r \in 0 .. rows - 1 |-> [c \in 0 .. cols - 1 |-> BlankCell]]

IsPlaceholder(sc) == sc.chars # <<>> /\ sc.chars[1] = Placeholder

InGrid(r, c) == r >= 0 /\ r < vtRows /\ c >= 0 /\ c < vtCols

\* what the caller's cell holds when vterm_screen_get_cell refuses a
\* position outside the grid and leaves it unwritten
UnwrittenCell == Cell(<<>>, 0, ColorRgb(0, 0, 0), ColorRgb(0, 0, 0), NoAttrs)

\* the line buffer as the engine's allocator hands it out: zeroed
ZeroedBuffer(cols) == [i \in 1 .. cols |-> UnwrittenCell]

\* vterm_screen_get_cell
GetCell(r, c) ==
    IF ~InGrid(r, c) THEN UnwrittenCell
    ELSE LET sc == screen[r][c]
             w == IF c < vtCols - 1 /\ IsPlaceholder(screen[r][c + 1]) THEN 2 ELSE 1
         IN Cell(sc.chars, w, sc.fg, sc.bg, sc.attrs)

\* damage rectangles <<start_row, end_row, start_col, end_col>>
MergeRect(d, r) ==
    IF d = NoRect THEN r
    ELSE << Min(d[1], r[1]), Max(d[2], r[2]), Min(d[3], r[3]), Max(d[4], r[4]) >>

\* what the engine writes for one printed character: its codepoints, its
\* width in columns, and the pen it is written with
Glyph(chars, width, fg, bg, attrs) ==
    [chars |-> chars, width |-> width, fg |-> fg, bg |-> bg, attrs |-> attrs]

\* the grid after the engine put glyph g at (r, c)
PutGlyph(r, c, g) ==
    [screen EXCEPT ![r] =
        [x \in 0 .. vtCols - 1 |->
            IF x = c THEN ScreenCell(g.chars, g.fg, g.bg, g.attrs)
            ELSE IF x = c + 1 /\ g.width = 2
                 THEN ScreenCell(<<Placeholder>>, g.fg, g.bg, g.attrs)
                 ELSE @[x]]]

\* the grid after vterm_set_size: cells kept where the grids overlap
ResizedScreen(rows, cols) ==
    [r \in 0 .. rows - 1 |-> [c \in 0 .. cols - 1 |->
        IF r < vtRows /\ c < vtCols THEN screen[r][c] ELSE BlankCell]]

(* ----------------------------- code units ----------------------------- *)
\* the high and low 16 bits of a uint32_t
Hi16(x) == (x \div 65536) % 65536
Lo16(x) == x % 65536

\* (a variant that makes the surrogates of cp itself, not of cp - 0x10000)
Utf16UnitsNoOffset(cp) ==
    IF Hi16(cp) = 0 THEN << Lo16(cp) >>
    ELSE << (55296 + Hi16(cp) * 64 + (Lo16(cp) \div 1024)) % 65536,
            (56320 + (Lo16(cp) % 1024)) % 65536 >>

\* UTF-32 -> UTF-16 of one codepoint, each unit cast to jchar:
\* cp <= 0xFFFF is one unit, else cp -= 0x10000 and the units are
\* 0xD800 + (cp >> 10) and 0xDC00 + (cp & 0x3FF)
Utf16Units(cp) ==
    IF Hi16(cp) = 0 THEN << Lo16(cp) >>
    ELSE << (55296 + (Hi16(cp) - 1) * 64 + (Lo16(cp) \div 1024)) % 65536,
            (56320 + (Lo16(cp) % 1024)) % 65536 >>

RECURSIVE CharsUnits(_)
CharsUnits(chars) ==
    IF chars = <<>> THEN <<>>
    ELSE Utf16Units(Head(chars)) \o CharsUnits(Tail(chars))

\* the units getCellRun appends for one cell
CellUnits(cell) ==
    IF cell.chars = <<>> THEN << 32 >>
    ELSE CharsUnits(SubSeq(cell.chars, 1, Min(Len(cell.chars), MaxCharsPerCell)))

\* whether the scan loop takes another cell: c < mCols && runLength < 256
ScanContinues(c, runLength) == c < mCols /\ runLength < RunCapacity

\* the CellRun fields getCellRun sets
CellRun(ref, units) ==
    [fg |-> resolveColor(ref.fg), bg |-> resolveColor(ref.bg), attrs |-> ref.attrs,
     chars |-> units, runLength |-> Len(units)]
NoRun == <<>>

(* ------------------------------ frames -------------------------------- *)
\* One operation in progress on a thread: op and args as called, pc the place
\* it has reached, rv its return value, loc its locals, sent the host
\* notifications it has issued (the last one is running while pc = "inHost"),
\* next the place it resumes at when the host returns, events the callbacks
\* the engine has made during the call, acks what each callback that has
\* finished returned to the engine.
NewFrame(op, args) ==
    [op |-> op, pc |-> "lock", args |-> args, rv |-> 0, loc |-> <<>>,
     sent |-> <<>>, next |-> "", events |-> <<>>, acks |-> <<>>]

Depth(t) == Len(stack[t])
Top(t) == stack[t][Len(stack[t])]
SetTop(t, f) == [stack EXCEPT ![t] = [@ EXCEPT ![Len(@)] = f]]
At(t, op, pc) == stack[t] # <<>> /\ Top(t).op = op /\ Top(t).pc = pc

Note(kind, a) == [kind |-> kind, a |-> a]

\* the frame once it has entered the host with a notification
EnterHost(f, note, next) ==
    [f EXCEPT !.pc = "inHost", !.next = next, !.sent = Append(@, note)]

\* A callback of the engine into the bridge: its kind (the entry of the
\* callback table), its arguments, and the length of sent when it was made.
Event(kind, a, f) == [kind |-> kind, a |-> a, at |-> Len(f.sent)]

\* the frame with the callback recorded
Engine(f, kind, a) == [f EXCEPT !.events = Append(@, Event(kind, a, f))]

\* What Terminal::termDamage .. termOscFallback return to the engine: called
\* says whether the host's method was called, result is what it returned.
\* termOutput returns nothing.
NoReturn == "void"
termReturn(kind, called, result) ==
    CASE kind \in {"damage", "movecursor", "settermprop", "bell", "sb_pushline"} -> 1
      [] kind \in {"moverect", "osc"} -> IF called THEN result ELSE 0
      [] kind = "output" -> NoReturn

\* the frame after a callback: it has returned unless the host is running
Acked(f, kind) ==
    IF f.pc = "inHost" THEN f
    ELSE [f EXCEPT !.acks = Append(@, termReturn(kind, FALSE, 0))]

\* the jint values a host's methods may return
HostCodes == {0, 1, 7}

(* ------------------------------- mLock -------------------------------- *)
\* std::recursive_mutex: free, or already owned by the calling thread
CanAcquire(t) == lockOwner = NoThread \/ lockOwner = t

\* std::lock_guard<std::recursive_mutex> lock(mLock)
AcquireLock(t) ==
    /\ stack[t] # <<>>
    /\ Top(t).pc = "lock"
    /\ CanAcquire(t)
    /\ lockOwner' = t
    /\ lockCount' = lockCount + 1
    /\ stack' = SetTop(t, [Top(t) EXCEPT !.pc = "body"])
    /\ UNCHANGED <<sessionVars, engineVars, codecVars, hostVars, teardownVars, poolVars>>

\* the owner after one unlock by the returning thread
OwnerAfterUnlock == IF lockCount = 1 THEN NoThread ELSE lockOwner

\* the operation returns: ~lock_guard, the frame is popped
Return(t) ==
    /\ stack[t] # <<>>
    /\ Top(t).pc = "ret"
    /\ lockOwner' = OwnerAfterUnlock
    /\ lockCount' = lockCount - 1
    /\ stack' = [stack EXCEPT ![t] = SubSeq(@, 1, Len(@) - 1)]
    /\ UNCHANGED <<sessionVars, engineVars, codecVars, hostVars, teardownVars, poolVars>>

(* -------------------------------- host -------------------------------- *)
\* the host may call in from outside, or from inside a notification
CanCall(t) ==
    \/ stack[t] = <<>>
    \/ stack[t] # <<>> /\ Depth(t) < MaxDepth /\ Top(t).pc = "inHost"

\* the host's handler returns to the bridge, and the callback that called
\* it to the engine (a pop goes on in invokePopScrollbackLine first)
HostReturn(t) ==
    /\ stack[t] # <<>>
    /\ Top(t).pc = "inHost"
    /\ LET f == Top(t)
           kind == f.events[Len(f.events)].kind
           pending == Len(f.acks) < Len(f.events) /\ kind # "sb_popline"
       IN stack' = SetTop(t, [f EXCEPT
                     !.pc = f.next,
                     !.acks = IF pending THEN Append(@, termReturn(kind, TRUE, hostCode))
                              ELSE @])
    /\ UNCHANGED <<sessionVars, engineVars, lockVars, codecVars, hostVars, teardownVars, poolVars>>

\* Terminal::invokeDamage, on a thread the JVM knows (every caller comes in
\* through JNI, so GetEnv succeeds)
invokeDamage(f, rect, next) ==
    IF ~mDamageMethod THEN [f EXCEPT !.pc = next]
    ELSE EnterHost(f, Note("damage", rect), next)

(* ------------------------------- calls -------------------------------- *)
\* the host calls an operation on thread t
Call(t, op, args) ==
    /\ CanCall(t)
    /\ stack' = [stack EXCEPT ![t] = Append(@, NewFrame(op, args))]
    /\ UNCHANGED <<sessionVars, engineVars, lockVars, codecVars, hostVars, teardownVars, poolVars>>

(* ----------------------------- writeInput ----------------------------- *)
\* Terminal::writeInput up to vterm_input_write; args = <<length>>
WriteInputBody(t) ==
    /\ At(t, "writeInput", "body")
    /\ stack' = SetTop(t,
            IF mVt = "null" THEN [Top(t) EXCEPT !.pc = "ret", !.rv = 0]
            ELSE [Top(t) EXCEPT !.pc = "parse", !.loc = [left |-> Top(t).args[1]]])
    /\ UNCHANGED <<sessionVars, engineVars, lockVars, codecVars, hostVars, teardownVars, poolVars>>

\* vterm_input_write consumes one byte that prints glyph g at (r, c)
ParsePrint(t, r, c, g) ==
    /\ At(t, "writeInput", "parse")
    /\ Top(t).loc.left > 0
    /\ r \in 0 .. vtRows - 1
    /\ c \in 0 .. vtCols - g.width
    /\ screen' = PutGlyph(r, c, g)
    /\ damaged' = MergeRect(damaged, << r, r + 1, c, c + g.width >>)
    /\ stack' = SetTop(t, [Top(t) EXCEPT !.loc.left = @ - 1])
    /\ UNCHANGED <<sbBuffer, sessionVars, vtRows, vtCols, colors, defaultFg, defaultBg,
                   lockVars, codecVars, hostVars, teardownVars, poolVars>>

\* vterm_input_write has consumed every byte: written = length
ParseDone(t) ==
    /\ At(t, "writeInput", "parse")
    /\ Top(t).loc.left = 0
    /\ stack' = SetTop(t, [Top(t) EXCEPT !.pc = "flush", !.rv = Top(t).args[1]])
    /\ UNCHANGED <<sessionVars, engineVars, lockVars, codecVars, hostVars, teardownVars, poolVars>>

\* vterm_screen_flush_damage: the damage callback, Terminal::termDamage
FlushDamage(t) ==
    /\ stack[t] # <<>>
    /\ Top(t).pc = "flush"
    /\ stack' = SetTop(t,
            IF damaged = NoRect THEN [Top(t) EXCEPT !.pc = "ret"]
            ELSE Acked(invokeDamage(Engine(Top(t), "damage", damaged), damaged, "flushed"),
                       "damage"))
    /\ UNCHANGED <<sessionVars, engineVars, lockVars, codecVars, hostVars, teardownVars, poolVars>>

\* vterm_screen_flush_damage after the callback: damaged.start_row = -1
Flushed(t) ==
    /\ stack[t] # <<>>
    /\ Top(t).pc = "flushed"
    /\ damaged' = NoRect
    /\ stack' = SetTop(t, [Top(t) EXCEPT !.pc = "ret"])
    /\ UNCHANGED <<sbBuffer, sessionVars, vtRows, vtCols, screen, colors, defaultFg, defaultBg,
                   lockVars, codecVars, hostVars, teardownVars, poolVars>>

(* ------------------------------- resize ------------------------------- *)
\* vterm_set_size: the engine takes only positive dimensions
EngineAccepts(rows, cols) == rows >= 1 /\ cols >= 1

\* the rows and columns Terminal::resize stores
StoredDims(rows, cols) == << rows, cols >>

\* Terminal::resize; args = <<rows, cols>>
ResizeBody(t) ==
    /\ At(t, "resize", "body")
    /\ LET rows == Top(t).args[1]
           cols == Top(t).args[2]
       IN /\ mRows' = StoredDims(rows, cols)[1]
          /\ mCols' = StoredDims(rows, cols)[2]
          /\ IF mVt = "vt" /\ EngineAccepts(rows, cols)
             THEN /\ vtRows' = rows
                  /\ vtCols' = cols
                  /\ screen' = ResizedScreen(rows, cols)
                  /\ damaged' = << 0, rows, 0, cols >>
             ELSE UNCHANGED <<vtRows, vtCols, screen, damaged>>
          /\ sbBuffer' = IF mVt = "vt" /\ EngineAccepts(rows, cols) /\ rows <= vtRows
                         THEN ZeroedBuffer(cols) ELSE sbBuffer
          /\ stack' = SetTop(t, [Top(t) EXCEPT
                                    !.pc = IF mVt # "vt" THEN "ret"
                                           ELSE IF EngineAccepts(rows, cols) /\ rows > vtRows
                                                THEN "pop" ELSE "flush",
                                    !.rv = 0])
    /\ UNCHANGED <<mVt, mVts, mDamageMethod, colors, defaultFg, defaultBg,
                   lockVars, codecVars, hostVars, teardownVars, poolVars>>

(* ------------------------------ colours ------------------------------- *)
\* the palette after the loop of setPaletteColors over count entries
PaletteAfter(cols, count) ==
    [i \in 0 .. 15 |-> IF i < Min(count, 16) THEN ArgbToRgb(cols[i + 1]) ELSE colors[i]]

\* Terminal::setPaletteColors up to invokeDamage; args = <<colors, count>>
SetPaletteBody(t) ==
    /\ At(t, "setPaletteColors", "body")
    /\ IF mVt = "null"
       THEN /\ stack' = SetTop(t, [Top(t) EXCEPT !.pc = "ret", !.rv = -1])
            /\ UNCHANGED colors
       ELSE /\ colors' = PaletteAfter(Top(t).args[1], Top(t).args[2])
            /\ stack' = SetTop(t, [Top(t) EXCEPT !.pc = "notify",
                                                 !.rv = Min(Top(t).args[2], 16)])
    /\ UNCHANGED <<sbBuffer, sessionVars, vtRows, vtCols, screen, defaultFg, defaultBg, damaged,
                   lockVars, codecVars, hostVars, teardownVars, poolVars>>

\* Terminal::setDefaultColors up to invokeDamage; args = <<fgColor, bgColor>>
SetDefaultBody(t) ==
    /\ At(t, "setDefaultColors", "body")
    /\ IF mVt = "null"
       THEN /\ stack' = SetTop(t, [Top(t) EXCEPT !.pc = "ret", !.rv = -1])
            /\ UNCHANGED <<defaultFg, defaultBg>>
       ELSE /\ defaultFg' = ArgbToRgb(Top(t).args[1])
            /\ defaultBg' = ArgbToRgb(Top(t).args[2])
            /\ stack' = SetTop(t, [Top(t) EXCEPT !.pc = "notify", !.rv = 0])
    /\ UNCHANGED <<sbBuffer, sessionVars, vtRows, vtCols, screen, colors, damaged,
                   lockVars, codecVars, hostVars, teardownVars, poolVars>>

\* the full-grid rectangle both colour setters report
FullGrid == << 0, mRows, 0, mCols >>

\* invokeDamage(0, mRows, 0, mCols) of setPaletteColors and setDefaultColors
NotifyFullDamage(t) ==
    /\ stack[t] # <<>>
    /\ Top(t).pc = "notify"
    /\ stack' = SetTop(t, invokeDamage(Top(t), FullGrid, "ret"))
    /\ UNCHANGED <<sessionVars, engineVars, lockVars, codecVars, hostVars, teardownVars, poolVars>>

(* ----------------------------- getCellRun ----------------------------- *)
\* the guard of getCellRun on the stored dimensions
OutOfBounds(row, col) == row < 0 \/ row >= mRows \/ col < 0 \/ col >= mCols

\* locals of a getCellRun frame: the reference cell, the loop's column c and
\* chars[0..runLength) as units, the columns whose units were appended, the
\* CellRun fields set (NoRun: none), whether the engine was read, and whether
\* it was driven through a pointer that is no screen
RunLocals(cell, c, read, wild) ==
    [cell |-> cell, c |-> c, units |-> <<>>, cols |-> <<>>, run |-> NoRun,
     read |-> read, wild |-> wild]

\* Terminal::getCellRun up to the first vterm_screen_get_cell; args = <<row, col>>
\* mVts is never assigned when vterm_new fails: testing it then reads an
\* indeterminate pointer, and a non-null one passes the guard
GetCellRunBody(t) ==
    /\ At(t, "getCellRun", "body")
    /\ LET row == Top(t).args[1]
           col == Top(t).args[2]
       IN IF mVts = "null" \/ OutOfBounds(row, col)
          THEN stack' = SetTop(t, [Top(t) EXCEPT !.pc = "ret", !.rv = 0,
                                   !.loc = RunLocals(<<>>, col, FALSE, FALSE)])
          ELSE IF mVts = "wild"
          THEN \E out \in {"ret", "crashed"}, n \in {0, 1} :
                  stack' = SetTop(t, [Top(t) EXCEPT !.pc = out, !.rv = n,
                                      !.loc = RunLocals(<<>>, col, TRUE, TRUE)])
          ELSE stack' = SetTop(t, [Top(t) EXCEPT !.pc = "scan",
                                   !.loc = RunLocals(GetCell(row, col), col, TRUE, FALSE)])
    /\ UNCHANGED <<sessionVars, engineVars, lockVars, codecVars, hostVars, teardownVars, poolVars>>

\* One pass of the scan loop of getCellRun, or its exit. A write past
\* chars[255] is undefined: the call goes on with what it computed, or the
\* process dies.
GetCellRunScan(t) ==
    /\ At(t, "getCellRun", "scan")
    /\ LET f == Top(t)
           row == f.args[1]
           col == f.args[2]
           c == f.loc.c
           cur == GetCell(row, c)
           units == f.loc.units \o CellUnits(cur)
           took == [f EXCEPT !.loc.units = units,
                             !.loc.cols = Append(@, c),
                             !.loc.c = c + (IF cur.width = 2 THEN 2 ELSE 1)]
       IN IF ~ScanContinues(c, Len(f.loc.units))
             \/ (c > col /\ ~cellStyleEqual(f.loc.cell, cur))
          THEN stack' = SetTop(t, [f EXCEPT !.pc = "fill"])
          ELSE IF Len(units) > RunCapacity
               THEN \E out \in {"scan", "crashed"} :
                       stack' = SetTop(t, [took EXCEPT !.pc = out])
               ELSE stack' = SetTop(t, took)
    /\ UNCHANGED <<sessionVars, engineVars, lockVars, codecVars, hostVars, teardownVars, poolVars>>

\* no jcharArray (nullptr), and a CellRun object no call has filled
NoArray == <<>>
EmptyRun == [chars |-> NoArray, runLength |-> 0]

\* a CellRun the host lets go of when the call returns
Temporary == "temporary"

\* tls_charArray == nullptr || tls_charArraySize < runLength
PoolTooSmall(t, runLength) ==
    tlsCharArray[t].ref = NoArray \/ tlsCharArray[t].size < runLength

\* jsize newSize = ((runLength + 63) / 64) * 64
PoolSize(runLength) == ((runLength + 63) \div 64) * 64

\* the array NewCharArray(newSize) makes for thread t: a thread's arrays
\* differ in size, each larger than the one before
NewCharArray(t, newSize) == << t, newSize >>

\* SetCharArrayRegion(array, 0, runLength, chars): the elements from
\* runLength on stay as they were
SetCharArrayRegion(elements, units) ==
    units \o SubSeq(elements, Len(units) + 1, Len(elements))

\* the thread-local array a run of runLength units goes to, and its size
PooledArray(t, runLength) ==
    IF PoolTooSmall(t, runLength)
    THEN [ref |-> NewCharArray(t, PoolSize(runLength)), size |-> PoolSize(runLength)]
    ELSE tlsCharArray[t]

\* Terminal::getCellRun after the loop: the colours are resolved, the fields
\* of the caller's CellRun are set, the units are copied to the calling
\* thread's array, which becomes the CellRun's chars, and runLength is
\* returned. runObject is a CellRun the host keeps, or a temporary one;
\* charArrays follows the arrays that the CellRuns the host keeps refer to.
GetCellRunFill(t) ==
    /\ At(t, "getCellRun", "fill")
    /\ stack' = SetTop(t, [Top(t) EXCEPT
                              !.pc = "ret",
                              !.rv = Len(Top(t).loc.units),
                              !.loc.run = CellRun(Top(t).loc.cell, Top(t).loc.units)])
    /\ \E runObject \in DOMAIN runs \cup {Temporary} :
          LET units == Top(t).loc.units
              pooled == PooledArray(t, Len(units))
              elements == IF pooled.ref \in DOMAIN charArrays
                          THEN charArrays[pooled.ref] ELSE <<>>
              filled == [o \in DOMAIN runs |->
                            IF o = runObject
                            THEN [chars |-> pooled.ref, runLength |-> Len(units)]
                            ELSE runs[o]]
              inReach == { filled[o].chars : o \in DOMAIN runs } \ {NoArray}
          IN /\ tlsCharArray' = [tlsCharArray EXCEPT ![t] = pooled]
             /\ runs' = filled
             /\ charArrays' = [a \in inReach |->
                                  IF a = pooled.ref THEN SetCharArrayRegion(elements, units)
                                  ELSE charArrays[a]]
    /\ UNCHANGED <<sessionVars, engineVars, lockVars, codecVars, hostVars, teardownVars>>

(* -------------------------------- reset ------------------------------- *)
\* Terminal::reset: vterm_screen_reset(mVts, 1) drops pending damage, clears
\* the grid, which damages all of it, and ends in vterm_screen_flush_damage
ResetBody(t) ==
    /\ At(t, "reset", "body")
    /\ IF mVts = "vts"
       THEN /\ screen' = BlankScreen(vtRows, vtCols)
            /\ damaged' = << 0, vtRows, 0, vtCols >>
            /\ stack' = SetTop(t, [Top(t) EXCEPT !.pc = "flush"])
       ELSE /\ UNCHANGED <<screen, damaged>>
            /\ IF mVts = "null"
               THEN stack' = SetTop(t, [Top(t) EXCEPT !.pc = "ret"])
               ELSE \E out \in {"ret", "crashed"} :
                       stack' = SetTop(t, [Top(t) EXCEPT !.pc = out,
                                   !.loc = RunLocals(<<>>, 0, TRUE, TRUE)])
    /\ UNCHANGED <<sbBuffer, sessionVars, vtRows, vtCols, colors, defaultFg, defaultBg,
                   lockVars, codecVars, hostVars, teardownVars, poolVars>>

(* ------------------------------ keyboard ------------------------------ *)
\* the VTermModifier of a modifier mask: shift 1, alt 2, ctrl 4
EngineModifier(m) ==
    (IF m % 2 = 1 THEN 1 ELSE 0) + (IF (m \div 2) % 2 = 1 THEN 2 ELSE 0)
        + (IF (m \div 4) % 2 = 1 THEN 4 ELSE 0)

\* Terminal::invokeKeyboardOutput
invokeKeyboardOutput(f, data, next) ==
    IF "onKeyboardInput" \notin mHandlers THEN [f EXCEPT !.pc = next]
    ELSE EnterHost(f, Note("keyboard", data), next)

\* Terminal::dispatchKey and Terminal::dispatchCharacter; args = <<modifiers,
\* key or codepoint>>. The engine answers a key with output bytes, which
\* Terminal::termOutput hands to the host.
DispatchBody(t) ==
    /\ stack[t] # <<>>
    /\ Top(t).op \in {"dispatchKey", "dispatchCharacter"}
    /\ Top(t).pc = "body"
    /\ stack' = SetTop(t,
            IF mVt = "null" THEN [Top(t) EXCEPT !.pc = "ret", !.rv = FALSE]
            ELSE LET data == << EngineModifier(Top(t).args[1]), Top(t).args[2] >>
                 IN Acked(invokeKeyboardOutput(
                              Engine([Top(t) EXCEPT !.rv = TRUE], "output", data), data, "ret"),
                          "output"))
    /\ UNCHANGED <<sessionVars, engineVars, lockVars, codecVars, hostVars, teardownVars, poolVars>>

(* ------------------------------ teardown ------------------------------ *)
\* what Terminal::~Terminal lets go of, in the order of its statements: the
\* engine (vterm_free), then the global references to the callbacks object,
\* to the CellRun class and to the cached callback classes
TeardownOrder == << "engine", "mCallbacks", "mCellRunClass", "classes" >>

\* One statement of Terminal::~Terminal. vterm_free also frees the screen,
\* and mVts keeps its address: from then on it points at no screen.
DestroyStep(t) ==
    /\ At(t, "destroy", "body")
    /\ LET k == IF Top(t).loc = <<>> THEN 1 ELSE Top(t).loc.k
           item == TeardownOrder[k]
           done == k = Len(TeardownOrder)
       IN /\ life' = "teardown"
          /\ IF item = "engine"
             THEN /\ released' = IF mVt = "vt" THEN Append(released, item) ELSE released
                  /\ mVt' = "null"
                  /\ mVts' = IF mVt = "vt" THEN "wild" ELSE mVts
             ELSE /\ released' = Append(released, item)
                  /\ UNCHANGED <<mVt, mVts>>
          /\ stack' = SetTop(t, [Top(t) EXCEPT !.pc = IF done THEN "ret" ELSE "body",
                                               !.loc = [k |-> k + 1]])
    /\ UNCHANGED <<mRows, mCols, mDamageMethod, engineVars, lockVars, codecVars,
                   hostVars, poolVars>>

\* ~Terminal has returned and nativeDestroy has deleted the object
Deleted ==
    /\ life = "teardown"
    /\ \A t \in Threads : \A i \in 1 .. Len(stack[t]) : stack[t][i].op # "destroy"

\* An operation that locks the mutex of a deleted object: it goes on as if
\* the memory were still there (AcquireLock), or the process dies.
LockDeleted(t) ==
    /\ stack[t] # <<>>
    /\ Top(t).pc = "lock"
    /\ Deleted
    /\ stack' = SetTop(t, [Top(t) EXCEPT !.pc = "crashed"])
    /\ UNCHANGED <<sessionVars, engineVars, lockVars, codecVars, hostVars, teardownVars, poolVars>>

\* one step of the operation in progress on thread t
Step(t) ==
    \/ AcquireLock(t)
    \/ WriteInputBody(t)
    \/ ParseDone(t)
    \/ FlushDamage(t)
    \/ Flushed(t)
    \/ ResizeBody(t)
    \/ SetPaletteBody(t)
    \/ SetDefaultBody(t)
    \/ NotifyFullDamage(t)
    \/ GetCellRunBody(t)
    \/ GetCellRunScan(t)
    \/ GetCellRunFill(t)
    \/ ResetBody(t)
    \/ DispatchBody(t)
    \/ HostReturn(t)
    \/ Return(t)

(* ------------------------------- start -------------------------------- *)
\* the engine's palette and default colours after vterm_new
AnsiColors ==
    [i \in 0 .. 15 |->
        IF i < 8 THEN << 224 * (i % 2), 224 * ((i \div 2) % 2), 224 * ((i \div 4) % 2) >>
        ELSE IF i = 8 THEN << 128, 128, 128 >>
        ELSE << 64 + 191 * (i % 2), 64 + 191 * ((i \div 2) % 2),
                64 + 191 * ((i \div 4) % 2) >>]
InitialFg == << 240, 240, 240 >>
InitialBg == << 0, 0, 0 >>

\* the pen the engine starts with: its copies of the default colours
InitialPenFg == VTermColor(2, 240, 240, 240)
InitialPenBg == VTermColor(4, 0, 0, 0)

codecIdle == utf8 = <<>> /\ mutf8 = <<>> /\ back = <<>> /\ cpc = "idle" /\ cpp = 0

\* The session after Terminal::Terminal(env, callbacks, rows, cols) and input
\* that left the engine's grid as given: vt says whether vterm_new succeeded,
\* vts what mVts holds, dmg whether GetMethodID found "damage"
StartedHolding(vt, vts, rows, cols, dmg, grid, handlers, code, runObjects) ==
    /\ mVt = vt
    /\ mVts = vts
    /\ mRows = rows
    /\ mCols = cols
    /\ mDamageMethod = dmg
    /\ vtRows = IF vt = "vt" THEN rows ELSE 0
    /\ vtCols = IF vt = "vt" THEN cols ELSE 0
    /\ colors = AnsiColors
    /\ defaultFg = InitialFg
    /\ defaultBg = InitialBg
    /\ screen = IF vt = "vt" THEN grid ELSE <<>>
    /\ damaged = NoRect
    /\ sbBuffer = IF vt = "vt" THEN ZeroedBuffer(cols) ELSE <<>>
    /\ lockOwner = NoThread
    /\ lockCount = 0
    /\ stack = [t \in Threads |-> <<>>]
    /\ mHandlers = handlers
    /\ hostLines = <<>>
    /\ hostCode = code
    /\ life = "alive"
    /\ released = <<>>
    /\ tlsCharArray = [t \in Threads |-> [ref |-> NoArray, size |-> 0]]
    /\ charArrays = <<>>
    /\ runs = [o \in runObjects |-> EmptyRun]

\* a host that keeps no CellRun
StartedAnswering(vt, vts, rows, cols, dmg, grid, handlers, code) ==
    StartedHolding(vt, vts, rows, cols, dmg, grid, handlers, code, {})

\* the methods GetMethodID looks up besides damage
AllHandlers ==
    {"moverect", "moveCursor", "setTermProp", "bell", "pushScrollbackLine",
     "popScrollbackLine", "onKeyboardInput", "onOscSequence"}

\* a host whose methods return 1
StartedWith(vt, vts, rows, cols, dmg, grid, handlers) ==
    StartedAnswering(vt, vts, rows, cols, dmg, grid, handlers, 1)

\* a host that implements every method
Started(vt, vts, rows, cols, dmg, grid) ==
    StartedWith(vt, vts, rows, cols, dmg, grid, AllHandlers)

\* the grid after vterm_new: every cell erased, with the initial pen
NewScreen(rows, cols) ==
    [r \in 0 .. rows - 1 |-> [c \in 0 .. cols - 1 |->
        ScreenCell(<<>>, InitialPenFg, InitialPenBg, NoAttrs)]]

Constructed(vt, vts, rows, cols, dmg) ==
    Started(vt, vts, rows, cols, dmg, NewScreen(rows, cols))

\* what mVt and mVts can hold after the constructor
EngineOutcomes == { <<"vt", "vts">>, <<"null", "null">>, <<"null", "wild">> }

(* ----------------------- the session, one thread ---------------------- *)
\* arguments the host passes
ResizeRows == {0, 1}
ResizeCols == {-1, 2}
\* the jint with bytes 0xAARRGGBB
JintArgb(a, r, g, b) == (IF a >= 128 THEN a - 256 ELSE a) * 16777216 + r * 65536 + g * 256 + b
ArgbA == JintArgb(255, 17, 34, 51)
ArgbB == JintArgb(0, 255, 0, 0)
PaletteArgs == { << <<ArgbB, ArgbA>>, 2 >> }
DefaultArgs == { << ArgbA, ArgbB >> }
QueryRows == {0, 1}
QueryCols == {0, 2}
KeyArgs == { << 5, 13 >> }

\* glyphs the engine prints: with the pen as SGR 0 leaves it, and bold on
\* palette entry 1
GlyphPlain == Glyph(<<65>>, 1, PenDefaultFg, PenDefaultBg, NoAttrs)
GlyphBold == Glyph(<<66>>, 1, ColorIndexed(1), ColorRgb(0, 0, 0), BoldAttrs)

Init ==
    /\ \E e \in EngineOutcomes, dmg \in BOOLEAN : Constructed(e[1], e[2], 1, 2, dmg)
    /\ codecIdle

CallWriteInput(t) == \E n \in 0 .. MaxInput : Call(t, "writeInput", << n >>)
CallResize(t) == \E r \in ResizeRows, c \in ResizeCols : Call(t, "resize", << r, c >>)
CallSetPalette(t) == \E a \in PaletteArgs : Call(t, "setPaletteColors", a)
CallSetDefault(t) == \E a \in DefaultArgs : Call(t, "setDefaultColors", a)
CallGetCellRun(t) == \E r \in QueryRows, c \in QueryCols : Call(t, "getCellRun", << r, c >>)
CallReset(t) == Call(t, "reset", <<>>)
CallDispatchKey(t) == \E a \in KeyArgs : Call(t, "dispatchKey", a)
CallDispatchCharacter(t) == \E a \in KeyArgs : Call(t, "dispatchCharacter", a)

PrintGlyph(t) ==
    \E r \in 0 .. vtRows - 1, c \in 0 .. vtCols - 1, g \in {GlyphPlain, GlyphBold} :
        ParsePrint(t, r, c, g)

Next ==
    \/ CallWriteInput("t1")
    \/ CallResize("t1")
    \/ CallSetPalette("t1")
    \/ CallSetDefault("t1")
    \/ CallGetCellRun("t1")
    \/ CallReset("t1")
    \/ CallDispatchKey("t1")
    \/ CallDispatchCharacter("t1")
    \/ PrintGlyph("t1")
    \/ Step("t1")

Spec == Init /\ [][Next]_vars

(* ----------------------- the session, two threads ---------------------- *)
\* Both threads call every operation; each may call in again from inside a
\* host notification.
InitThreads ==
    /\ Constructed("vt", "vts", 1, 2, TRUE)
    /\ codecIdle

CallAny(t) ==
    \/ Call(t, "writeInput", << 1 >>)
    \/ \E r \in {0, 1} : Call(t, "resize", << r, 2 >>)
    \/ \E a \in PaletteArgs : Call(t, "setPaletteColors", a)
    \/ \E a \in DefaultArgs : Call(t, "setDefaultColors", a)
    \/ Call(t, "getCellRun", << 0, 0 >>)
    \/ Call(t, "reset", <<>>)
    \/ \E a \in KeyArgs : Call(t, "dispatchKey", a)
    \/ \E a \in KeyArgs : Call(t, "dispatchCharacter", a)

PrintBold(t) == \E c \in 0 .. vtCols - 1 : ParsePrint(t, 0, c, GlyphBold)

NextThreads == \E t \in Threads : CallAny(t) \/ PrintBold(t) \/ Step(t)

SpecThreads == InitThreads /\ [][NextThreads]_vars

(* ------------------------ the session's lifetime ----------------------- *)
\* Two threads use the session and one of them destroys it, once and from
\* outside any notification; the other may be waiting at the lock then, or
\* call afterwards.
InitLife ==
    /\ \E e \in EngineOutcomes : Constructed(e[1], e[2], 1, 2, TRUE)
    /\ codecIdle

CallDestroy(t) ==
    /\ life = "alive"
    /\ stack[t] = <<>>
    /\ \A u \in Threads : \A i \in 1 .. Len(stack[u]) : stack[u][i].op # "destroy"
    /\ Call(t, "destroy", <<>>)

CallLife(t) ==
    \/ Call(t, "writeInput", << 1 >>)
    \/ Call(t, "reset", <<>>)
    \/ Call(t, "getCellRun", << 0, 0 >>)
    \/ Call(t, "resize", << 1, 2 >>)

StepLife(t) ==
    \/ AcquireLock(t)
    \/ LockDeleted(t)
    \/ WriteInputBody(t)
    \/ PrintBold(t)
    \/ ParseDone(t)
    \/ FlushDamage(t)
    \/ Flushed(t)
    \/ ResizeBody(t)
    \/ GetCellRunBody(t)
    \/ GetCellRunScan(t)
    \/ GetCellRunFill(t)
    \/ ResetBody(t)
    \/ DestroyStep(t)
    \/ HostReturn(t)
    \/ Return(t)

NextLife == \E t \in Threads : CallLife(t) \/ CallDestroy(t) \/ StepLife(t)

SpecLife == InitLife /\ [][NextLife]_vars

(* -------------------------- cell-run scenarios ------------------------- *)
\* Rows the engine can hold after input: glyph a printed over the columns
\* left of split, glyph b from split on. A width-2 glyph takes two columns,
\* the second one the placeholder.
StyleA == << InitialPenFg, InitialPenBg, NoAttrs >>
StyleB == << ColorIndexed(1), ColorRgb(0, 0, 0), BoldAttrs >>
StyleC == << ColorRgb(240, 240, 240), InitialPenBg, NoAttrs >>
StyleBlink == << InitialPenFg, InitialPenBg, [NoAttrs EXCEPT !.blink = 1] >>
Styled(chars, width, st) == Glyph(chars, width, st[1], st[2], st[3])

RunGlyphs ==
    { Styled(<<>>, 1, StyleA),                       \* erased cell
      Styled(<<65>>, 1, StyleA),                     \* A
      Styled(<<66>>, 1, StyleB),                     \* B, another style
      Styled(<<67>>, 1, StyleC),                     \* C, same colour as an RGB
      Styled(<<101, 769>>, 1, StyleA),               \* e + combining acute
      Styled(<<128512>>, 1, StyleA),                 \* U+1F600
      Styled(<<97, 119143>>, 1, StyleA),             \* a + U+1D167
      Styled(<<19990>>, 2, StyleA),                  \* wide U+4E16
      Styled(<<128512, 119143, 119143, 119143, 119143, 119143>>, 2, StyleB) }

PatternRow(a, b, split, cols) ==
    [c \in 0 .. cols - 1 |->
        LET g == IF c < split THEN a ELSE b
            off == IF c < split THEN c ELSE c - split
        IN ScreenCell(IF g.width = 2 /\ off % 2 = 1 THEN <<Placeholder>> ELSE g.chars,
                      g.fg, g.bg, g.attrs)]

\* the rows, as <<a, b, split, cols>>: 10-column rows of every two glyphs,
\* split at column 5 or 3, and rows longer than the run capacity
ShortRows == { << a, b, sp, 10 >> : a \in RunGlyphs, b \in RunGlyphs, sp \in {3, 5} }
LongRows ==
    { << a, b, RunCapacity - 1, MaxCols >> :
        a \in { g \in RunGlyphs : g.attrs = NoAttrs /\ g.chars # <<>> },
        b \in { g \in RunGlyphs : g.width = 1 /\ Len(g.chars) = 2 } }
    \cup { << a, a, MaxCols, MaxCols >> : a \in { g \in RunGlyphs : g.chars # <<>> } }

InitRun ==
    /\ \E e \in EngineOutcomes, row \in ShortRows \cup LongRows :
          Started(e[1], e[2], 1, row[4], TRUE,
                  [r \in {0} |-> PatternRow(row[1], row[2], row[3], row[4])])
    /\ codecIdle

RunQueryCols == {-1, 0, 3, 4, 5, 7, 9, 10, RunCapacity - 1, MaxCols - 1, MaxCols}

CallRun(t) == \E r \in {-1, 0, 1}, c \in RunQueryCols : Call(t, "getCellRun", << r, c >>)

NextRun ==
    \/ CallRun("t1")
    \/ AcquireLock("t1")
    \/ GetCellRunBody("t1")
    \/ GetCellRunScan("t1")
    \/ GetCellRunFill("t1")
    \/ Return("t1")

SpecRun == InitRun /\ [][NextRun]_vars

\* Runs a host keeps: two CellRun objects, and rows of PoolCols columns
\* whose style changes after the first column or after the third, so that
\* the runs are one unit, three units, or more than one array's 64
PoolCols == 67
PoolRows ==
    { << Styled(<<65>>, 1, StyleA), Styled(<<66>>, 1, StyleB), sp, PoolCols >> : sp \in {1, 3} }

InitPool ==
    /\ \E row \in PoolRows :
          StartedHolding("vt", "vts", 1, row[4], TRUE,
                         [r \in {0} |-> PatternRow(row[1], row[2], row[3], row[4])],
                         AllHandlers, 1, {"run1", "run2"})
    /\ codecIdle

CallPool(t) == \E c \in {0, 1, 3} : Call(t, "getCellRun", << 0, c >>)

NextPool ==
    \/ CallPool("t1")
    \/ AcquireLock("t1")
    \/ GetCellRunBody("t1")
    \/ GetCellRunScan("t1")
    \/ GetCellRunFill("t1")
    \/ Return("t1")

SpecPool == InitPool /\ [][NextPool]_vars

(* -------------------------------- codec ------------------------------- *)
\* Byte strings are sequences of 0..255; position p counts from 0 as in the
\* source. A read past the end yields junk.
ByteAt(s, p, junk) == IF p < Len(s) THEN s[p + 1] ELSE junk

\* int step of a lead byte c: 2 for 110xxxxx, 3 for 1110xxxx, else 1
StepOf(c) == IF c \div 32 = 6 THEN 2 ELSE IF c \div 16 = 14 THEN 3 ELSE 1

\* (c & 0xF8) == 0xF0
IsLead4(c) == c \div 8 = 30

\* s[p .. p+n) cut at the end of s: the copy loop "i < step && p < end"
CopyBytes(s, p, n) == SubSeq(s, p + 1, Min(p + n, Len(s)))

\* utf8_to_mutf8, pass 1: needed_size from position p
RECURSIVE NeededFrom(_, _)
NeededFrom(s, p) ==
    IF p >= Len(s) THEN 0
    ELSE LET c == s[p + 1] IN
         IF c = 0 THEN 2 + NeededFrom(s, p + 1)
         ELSE IF IsLead4(c) THEN 6 + NeededFrom(s, p + 4)
         ELSE StepOf(c) + NeededFrom(s, p + StepOf(c))

\* utf8_to_mutf8, pass 1: the positions of utf8_in it reads from p on (*p)
RECURSIVE Pass1Reads(_, _)
Pass1Reads(s, p) ==
    IF p >= Len(s) THEN {}
    ELSE LET c == s[p + 1] IN
         {p} \cup Pass1Reads(s, IF c = 0 THEN p + 1
                                ELSE IF IsLead4(c) THEN p + 4 ELSE p + StepOf(c))

\* utf8_to_mutf8, pass 2: the positions it reads from p on: *p, then p[0]
\* .. p[3] of a 4-byte sequence, or the bytes the copy loop takes
RECURSIVE Pass2Reads(_, _)
Pass2Reads(s, p) ==
    IF p >= Len(s) THEN {}
    ELSE LET c == s[p + 1] IN
         IF c = 0 THEN {p} \cup Pass2Reads(s, p + 1)
         ELSE IF IsLead4(c) THEN (p .. p + 3) \cup Pass2Reads(s, p + 4)
         ELSE (p .. Min(p + StepOf(c), Len(s)) - 1) \cup Pass2Reads(s, p + StepOf(c))

\* (a variant that makes the surrogates of cp itself, not of cp - 0x10000)
SurrogateBytesNoOffset(b0, b1, b2, b3) ==
    LET cp == (b0 % 8) * 262144 + (b1 % 64) * 4096 + (b2 % 64) * 64 + (b3 % 64)
        high == 55296 + ((cp \div 1024) % 1024)
        low == 56320 + (cp % 1024)
    IN << 224 + ((high \div 4096) % 16), 128 + ((high \div 64) % 64), 128 + (high % 64),
          224 + ((low \div 4096) % 16), 128 + ((low \div 64) % 64), 128 + (low % 64) >>

\* the six bytes utf8_to_mutf8 writes for the 4-byte sequence b0 b1 b2 b3
SurrogateBytes(b0, b1, b2, b3) ==
    LET cp == (b0 % 8) * 262144 + (b1 % 64) * 4096 + (b2 % 64) * 64 + (b3 % 64)
        v == cp - 65536
        high == 55296 + ((v \div 1024) % 1024)
        low == 56320 + (v % 1024)
    IN << 224 + ((high \div 4096) % 16), 128 + ((high \div 64) % 64), 128 + (high % 64),
          224 + ((low \div 4096) % 16), 128 + ((low \div 64) % 64), 128 + (low % 64) >>

\* utf8_to_mutf8, pass 2: the bytes written from position p
RECURSIVE EncodeFrom(_, _, _)
EncodeFrom(s, p, junk) ==
    IF p >= Len(s) THEN <<>>
    ELSE LET c == s[p + 1] IN
         IF c = 0 THEN << 192, 128 >> \o EncodeFrom(s, p + 1, junk)
         ELSE IF IsLead4(c)
              THEN SurrogateBytes(c, ByteAt(s, p + 1, junk), ByteAt(s, p + 2, junk),
                                  ByteAt(s, p + 3, junk))
                   \o EncodeFrom(s, p + 4, junk)
              ELSE CopyBytes(s, p, StepOf(c)) \o EncodeFrom(s, p + StepOf(c), junk)

\* (a variant that copies a NUL byte like any other single byte)
RECURSIVE EncodeNulKeptFrom(_, _, _)
EncodeNulKeptFrom(s, p, junk) ==
    IF p >= Len(s) THEN <<>>
    ELSE LET c == s[p + 1] IN
         IF IsLead4(c)
         THEN SurrogateBytes(c, ByteAt(s, p + 1, junk), ByteAt(s, p + 2, junk),
                             ByteAt(s, p + 3, junk))
              \o EncodeNulKeptFrom(s, p + 4, junk)
         ELSE CopyBytes(s, p, StepOf(c)) \o EncodeNulKeptFrom(s, p + StepOf(c), junk)

utf8_to_mutf8NulKept(s, junk) == EncodeNulKeptFrom(s, 0, junk)

\* utf8_to_mutf8(utf8_in, len, &out_len): the bytes before the terminator
utf8_to_mutf8(s, junk) == EncodeFrom(s, 0, junk)

\* the surrogate-pair test of mutf8_to_utf8 at position p
IsSurrogatePair(s, p) ==
    /\ s[p + 1] = 237
    /\ p + 5 < Len(s)
    /\ s[p + 2] >= 160 /\ s[p + 2] <= 175
    /\ s[p + 4] = 237
    /\ s[p + 5] >= 176 /\ s[p + 5] <= 191

\* the four bytes mutf8_to_utf8 writes for the pair at s[p .. p+6)
RecombinedBytes(s, p) ==
    LET high == (s[p + 1] % 16) * 4096 + (s[p + 2] % 64) * 64 + (s[p + 3] % 64)
        low == (s[p + 4] % 16) * 4096 + (s[p + 5] % 64) * 64 + (s[p + 6] % 64)
        cp == 65536 + (high - 55296) * 1024 + (low - 56320)
    IN << 240 + ((cp \div 262144) % 8), 128 + ((cp \div 4096) % 64),
          128 + ((cp \div 64) % 64), 128 + (cp % 64) >>

\* (a variant that steps over the high surrogate only after a pair)
DecodeAtHalfStep(s, p) ==
    LET c == s[p + 1] IN
    IF c = 192 /\ p + 1 < Len(s) /\ s[p + 2] = 128
    THEN [out |-> << 0 >>, step |-> 2]
    ELSE IF IsSurrogatePair(s, p)
         THEN [out |-> RecombinedBytes(s, p), step |-> 3]
         ELSE [out |-> CopyBytes(s, p, StepOf(c)), step |-> Len(CopyBytes(s, p, StepOf(c)))]

\* mutf8_to_utf8, one turn of the loop at position p < len: the bytes it
\* writes and how far p moves
DecodeAt(s, p) ==
    LET c == s[p + 1] IN
    IF c = 192 /\ p + 1 < Len(s) /\ s[p + 2] = 128
    THEN [out |-> << 0 >>, step |-> 2]
    ELSE IF IsSurrogatePair(s, p)
         THEN [out |-> RecombinedBytes(s, p), step |-> 6]
         ELSE [out |-> CopyBytes(s, p, StepOf(c)), step |-> Len(CopyBytes(s, p, StepOf(c)))]

\* mutf8_to_utf8: the bytes written from position p
RECURSIVE DecodeFrom(_, _)
DecodeFrom(s, p) ==
    IF p >= Len(s) THEN <<>>
    ELSE DecodeAt(s, p).out \o DecodeFrom(s, p + DecodeAt(s, p).step)

\* mutf8_to_utf8(mutf8_in, len, &out_len): the bytes before the terminator
mutf8_to_utf8(s) == DecodeFrom(s, 0)

(* --------------------------- codec scenarios -------------------------- *)
\* Inputs: the standard UTF-8 encodings of up to MaxLen codepoints taken
\* from the ends of each encoded length, NUL and U+1F600 among them.
Utf8Of(cp) ==
    IF cp < 128 THEN << cp >>
    ELSE IF cp < 2048 THEN << 192 + (cp \div 64), 128 + (cp % 64) >>
    ELSE IF cp < 65536
         THEN << 224 + (cp \div 4096), 128 + ((cp \div 64) % 64), 128 + (cp % 64) >>
         ELSE << 240 + (cp \div 262144), 128 + ((cp \div 4096) % 64),
                 128 + ((cp \div 64) % 64), 128 + (cp % 64) >>

CodecCodepoints ==
    {0, 65, 127, 128, 2047, 2048, 55295, 57344, 65535, 65536, 128512, 1114111}

RECURSIVE Utf8OfAll(_)
Utf8OfAll(cps) == IF cps = <<>> THEN <<>> ELSE Utf8Of(Head(cps)) \o Utf8OfAll(Tail(cps))

ValidUtf8 == { Utf8OfAll(cps) : cps \in UNION { [1 .. n -> CodecCodepoints] : n \in 0 .. MaxLen } }

sessionIdle == Constructed("vt", "vts", 1, 2, TRUE)

InitCodec ==
    /\ sessionIdle
    /\ utf8 \in ValidUtf8
    /\ mutf8 = <<>>
    /\ back = <<>>
    /\ cpc = "in"
    /\ cpp = 0

\* the caller marshals the string: utf8_to_mutf8(utf8, len, &out_len)
Encode ==
    /\ cpc = "in"
    /\ \E junk \in {0, 255} : mutf8' = utf8_to_mutf8(utf8, junk)
    /\ cpc' = "enc"
    /\ UNCHANGED <<sessionVars, engineVars, lockVars, stack, utf8, back, cpp, hostVars,
                   teardownVars, poolVars>>

\* and back: mutf8_to_utf8(mutf8, out_len, &len)
Decode ==
    /\ cpc = "enc"
    /\ back' = mutf8_to_utf8(mutf8)
    /\ cpp' = Len(mutf8)
    /\ cpc' = "dec"
    /\ UNCHANGED <<sessionVars, engineVars, lockVars, stack, utf8, mutf8, hostVars, teardownVars, poolVars>>

NextCodec == Encode \/ Decode

SpecCodec == InitCodec /\ [][NextCodec]_vars

\* Inputs of the supplementary planes: one codepoint 0x10000 + 1024 h + l,
\* h and l taken from the ends and the middle of 0 .. 1023 (h up to 1023
\* is up to U+10FFFF)
SurrogateOffsets == {0, 1, 63, 64, 500, 512, 1022, 1023}

PlaneCodepoints == { 65536 + 1024 * h + l : h, l \in SurrogateOffsets }

InitPlanes ==
    /\ sessionIdle
    /\ utf8 \in { Utf8Of(cp) : cp \in PlaneCodepoints }
    /\ mutf8 = <<>>
    /\ back = <<>>
    /\ cpc = "in"
    /\ cpp = 0

SpecPlanes == InitPlanes /\ [][NextCodec]_vars

\* Inputs of the decoder, well-formed or not: every string of up to
\* MaxBytes bytes that are a plain byte, NUL, a continuation byte, the lead
\* bytes C0 and ED, or a second byte of a high (A0) or low (B0) surrogate
MaxBytes == 6

DecoderBytes == {0, 65, 128, 160, 176, 192, 237}

InitBytes ==
    /\ sessionIdle
    /\ utf8 = <<>>
    /\ mutf8 \in UNION { [1 .. n -> DecoderBytes] : n \in 0 .. MaxBytes }
    /\ back = <<>>
    /\ cpc = "loop"
    /\ cpp = 0

\* mutf8_to_utf8, one turn of while (p < end)
DecodeStep ==
    /\ cpc = "loop"
    /\ cpp < Len(mutf8)
    /\ back' = back \o DecodeAt(mutf8, cpp).out
    /\ cpp' = cpp + DecodeAt(mutf8, cpp).step
    /\ UNCHANGED <<sessionVars, engineVars, lockVars, stack, utf8, mutf8, cpc, hostVars,
                   teardownVars, poolVars>>

\* the loop is left, the terminator written at out and the length stored
DecodeDone ==
    /\ cpc = "loop"
    /\ cpp >= Len(mutf8)
    /\ cpc' = "dec"
    /\ UNCHANGED <<sessionVars, engineVars, lockVars, stack, utf8, mutf8, back, cpp,
                   hostVars, teardownVars, poolVars>>

NextBytes == DecodeStep \/ DecodeDone

SpecBytes == InitBytes /\ [][NextBytes]_vars

\* Inputs of the encoder, well-formed or not: every string of up to
\* MaxRaw bytes that are NUL, a plain byte, a continuation byte or the
\* lead byte of a 2-, 3- or 4-byte sequence, so also strings that end in
\* the middle of a sequence
MaxRaw == 4

EncoderBytes == {0, 65, 128, 194, 224, 240}

InitRaw ==
    /\ sessionIdle
    /\ utf8 \in UNION { [1 .. n -> EncoderBytes] : n \in 0 .. MaxRaw }
    /\ mutf8 = <<>>
    /\ back = <<>>
    /\ cpc = "in"
    /\ cpp = 0

SpecRaw == InitRaw /\ [][NextCodec]_vars

(* ------------------------------ callbacks ----------------------------- *)
\* Terminal::invokeMoverect .. invokeOscSequence: each returns at once when
\* its method was not found, and calls the host's method otherwise
invokeMoverect(f, dest, src, next) ==
    IF "moverect" \notin mHandlers THEN [f EXCEPT !.pc = next]
    ELSE EnterHost(f, Note("moverect", << dest, src >>), next)

invokeMoveCursor(f, pos, oldpos, visible, next) ==
    IF "moveCursor" \notin mHandlers THEN [f EXCEPT !.pc = next]
    ELSE EnterHost(f, Note("moveCursor", << pos, oldpos, visible >>), next)

\* a VTermValue with its type; a string is its bytes, or NullString
NullString == << -1 >>
PropValue(type, v) == [type |-> type, v |-> v]

\* the TerminalProperty object built for a value, NoValue when none is
NoValue == <<>>

\* (a variant that makes an empty string of a null one)
propValueNullAsEmpty(val) ==
    CASE val.type = "bool" -> << "Bool", val.v >>
      [] val.type = "int" -> << "Int", val.v >>
      [] val.type = "string" ->
            IF val.v = NullString THEN << "String", <<>> >>
            ELSE << "String", mutf8_to_utf8(val.v) >>
      [] val.type = "color" -> << "Color", resolveColor(val.v) >>

propValue(val) ==
    CASE val.type = "bool" -> << "Bool", val.v >>
      [] val.type = "int" -> << "Int", val.v >>
      [] val.type = "string" ->
            IF val.v = NullString THEN NoValue ELSE << "String", mutf8_to_utf8(val.v) >>
      [] val.type = "color" -> << "Color", resolveColor(val.v) >>

invokeSetTermProp(f, prop, val, next) ==
    IF "setTermProp" \notin mHandlers \/ propValue(val) = NoValue THEN [f EXCEPT !.pc = next]
    ELSE EnterHost(f, Note("setTermProp", << prop, propValue(val) >>), next)

invokeBell(f, next) ==
    IF "bell" \notin mHandlers THEN [f EXCEPT !.pc = next]
    ELSE EnterHost(f, Note("bell", <<>>), next)

\* payload.c_str(): the bytes up to the first NUL
RECURSIVE c_str(_)
c_str(bytes) ==
    IF bytes = <<>> \/ Head(bytes) = 0 THEN <<>>
    ELSE << Head(bytes) >> \o c_str(Tail(bytes))

invokeOscSequence(f, command, payload, next) ==
    IF "onOscSequence" \notin mHandlers THEN [f EXCEPT !.pc = next]
    ELSE EnterHost(f, Note("onOscSequence", << command, c_str(payload) >>), next)

\* the ScreenCell object invokePushScrollbackLine builds for one cell
primaryChar(cell) ==
    IF cell.chars = <<>> THEN 32 ELSE Head(Utf16Units(cell.chars[1]))

combiningList(cell) ==
    IF cell.chars = <<>> THEN <<>>
    ELSE Tail(Utf16Units(cell.chars[1]))
         \o CharsUnits(SubSeq(cell.chars, 2, Min(Len(cell.chars), MaxCharsPerCell)))

screenCell(cell) ==
    [char |-> primaryChar(cell), combiningChars |-> combiningList(cell),
     fg |-> resolveColor(cell.fg), bg |-> resolveColor(cell.bg),
     bold |-> cell.attrs.bold, italic |-> cell.attrs.italic,
     underline |-> cell.attrs.underline, reverse |-> cell.attrs.reverse,
     strike |-> cell.attrs.strike, width |-> cell.width]

\* the index the push loop goes to after cells[i]: if (cell.width == 2) i++
NextColumn(cell, i) == IF cell.width = 2 THEN i + 2 ELSE i + 1

\* the vector the push loop fills; cells[i] is column i - 1
RECURSIVE screenCellsFrom(_, _)
screenCellsFrom(cells, i) ==
    IF i > Len(cells) THEN <<>>
    ELSE << screenCell(cells[i]) >> \o screenCellsFrom(cells, NextColumn(cells[i], i))

screenCells(cells) == screenCellsFrom(cells, 1)

invokePushScrollbackLine(f, cells, next) ==
    IF "pushScrollbackLine" \notin mHandlers THEN [f EXCEPT !.pc = next]
    ELSE EnterHost(f, Note("pushScrollbackLine",
                           << Len(screenCells(cells)), screenCells(cells) >>), next)

\* Terminal::invokePopScrollbackLine up to the host's answer: declined when
\* the method was not found, else CallIntMethod(mCallbacks,
\* mPopScrollbackMethod, cols, cellArray)
invokePopScrollbackLine(f, cols, declined, next) ==
    IF "popScrollbackLine" \notin mHandlers THEN [f EXCEPT !.pc = declined]
    ELSE EnterHost(f, Note("popScrollbackLine", cols), next)

\* the cell the pop loop leaves for a null element of cellArray: it writes
\* chars, width, five attributes and both colours over what cells[i] held
EmptyCell(held) ==
    Cell(<< 32 >>, 1, ColorRgb(192, 192, 192), ColorRgb(0, 0, 0),
         [held.attrs EXCEPT !.bold = 0, !.italic = 0, !.underline = 0,
                            !.reverse = 0, !.strike = 0])

\* and for a ScreenCell: chars[0] = primaryChar, one unit of the list per
\* further slot, colours through uint8_t and vterm_color_rgb
poppedCell(sc, held) ==
    Cell(<< sc.char >> \o SubSeq(sc.combiningChars, 1,
                                 Min(Len(sc.combiningChars), MaxCharsPerCell - 1)),
         sc.width,
         ColorRgb(sc.fg[1] % 256, sc.fg[2] % 256, sc.fg[3] % 256),
         ColorRgb(sc.bg[1] % 256, sc.bg[2] % 256, sc.bg[3] % 256),
         [held.attrs EXCEPT !.bold = sc.bold, !.italic = sc.italic,
                         !.underline = sc.underline, !.reverse = sc.reverse,
                         !.strike = sc.strike])

\* the cells the pop loop leaves in the engine's buffer: cells[i] from
\* element i of cellArray
NullCell == <<>>
poppedCells(cellArray, cols, cells) ==
    [i \in 1 .. cols |->
        IF cellArray[i] = NullCell THEN EmptyCell(cells[i])
        ELSE poppedCell(cellArray[i], cells[i])]

(* ------------------------- the host's scrollback ----------------------- *)
\* The host keeps each line it is handed (row: the engine's cells the line
\* was made from, kept for comparison) and on a pop hands back the entries
\* of its newest line, from element 0 on, the other elements null.
HostLine(cells) == [entries |-> screenCells(cells), row |-> cells]

HostFill(entries, cols) ==
    [i \in 1 .. cols |-> IF i <= Len(entries) THEN entries[i] ELSE NullCell]

(* --------------------- the engine's callbacks at work ------------------ *)
\* the row the engine hands to sb_pushline: vterm_screen_get_cell per column
RowCells(r) == [i \in 1 .. vtCols |-> GetCell(r, i - 1)]

\* the grid after the top row scrolled out
ScrolledScreen ==
    [r \in 0 .. vtRows - 1 |->
        IF r < vtRows - 1 THEN screen[r + 1] ELSE [c \in 0 .. vtCols - 1 |-> BlankCell]]

\* vterm_input_write consumes a byte that scrolls the top row out: the
\* engine calls sb_pushline (Terminal::termSbPushline) with the row
ParseScroll(t) ==
    /\ At(t, "writeInput", "parse")
    /\ Top(t).loc.left > 0
    /\ Len(hostLines) < MaxLines
    /\ LET cells == RowCells(0)
           f == Engine([Top(t) EXCEPT !.loc.left = @ - 1], "sb_pushline", cells)
       IN /\ stack' = SetTop(t, Acked(invokePushScrollbackLine(f, cells, "parse"),
                                      "sb_pushline"))
          /\ hostLines' = IF "pushScrollbackLine" \in mHandlers
                          THEN Append(hostLines, HostLine(cells)) ELSE hostLines
    /\ sbBuffer' = RowCells(0)
    /\ screen' = ScrolledScreen
    /\ damaged' = MergeRect(damaged, << 0, vtRows, 0, vtCols >>)
    /\ UNCHANGED <<sessionVars, vtRows, vtCols, colors, defaultFg, defaultBg,
                   lockVars, codecVars, mHandlers, hostCode, teardownVars, poolVars>>

\* callbacks the engine makes while it parses input, as <<entry of the
\* callback table, arguments>>
ParseEvents ==
    { << "moverect", << << 0, 1, 0, 2 >>, << 0, 1, 1, 3 >> >> >>,
      << "movecursor", << << 0, 1 >>, << 0, 0 >>, TRUE >> >>,
      << "settermprop", << 1, PropValue("bool", 1) >> >>,
      << "settermprop", << 7, PropValue("int", 2) >> >>,
      << "settermprop", << 4, PropValue("string", << 116 >>) >> >>,
      << "settermprop", << 4, PropValue("string", << 240, 159, 152, 128 >>) >> >>,
      << "settermprop", << 4, PropValue("string", NullString) >> >>,
      << "settermprop", << 9, PropValue("color", ColorIndexed(1)) >> >>,
      << "bell", <<>> >>,
      << "output", << 27, 91, 99 >> >>,
      << "osc", << 52, << 120 >> >> >> }

\* Terminal::termMoverect .. termOscFallback
termCallback(f, kind, a, next) ==
    CASE kind = "moverect" -> invokeMoverect(f, a[1], a[2], next)
      [] kind = "movecursor" -> invokeMoveCursor(f, a[1], a[2], a[3], next)
      [] kind = "settermprop" -> invokeSetTermProp(f, a[1], a[2], next)
      [] kind = "bell" -> invokeBell(f, next)
      [] kind = "output" -> invokeKeyboardOutput(f, a, next)
      [] kind = "osc" -> invokeOscSequence(f, a[1], a[2], next)

\* vterm_input_write consumes a byte that makes the engine call back
ParseCallback(t) ==
    /\ At(t, "writeInput", "parse")
    /\ Top(t).loc.left > 0
    /\ \E ev \in ParseEvents :
          stack' = SetTop(t, Acked(termCallback(
                        Engine([Top(t) EXCEPT !.loc.left = @ - 1], ev[1], ev[2]),
                        ev[1], ev[2], "parse"), ev[1]))
    /\ UNCHANGED <<sessionVars, engineVars, lockVars, codecVars, hostVars, teardownVars, poolVars>>

\* vterm_set_size has grown the grid and asks for a line back: sb_popline
\* (Terminal::termSbPopline). The host answers inside the call.
PopRequest(t) ==
    /\ At(t, "resize", "pop")
    /\ LET line == IF hostLines = <<>> THEN <<>> ELSE hostLines[Len(hostLines)]
           asked == "popScrollbackLine" \in mHandlers
           f == Engine([Top(t) EXCEPT !.loc =
                    [result |-> IF asked /\ hostLines # <<>> THEN 1 ELSE 0,
                     cellArray |-> IF asked /\ hostLines # <<>>
                                   THEN HostFill(line.entries, vtCols) ELSE <<>>,
                     row |-> IF asked /\ hostLines # <<>> THEN line.row ELSE <<>>,
                     cells |-> <<>>]],
                  "sb_popline", vtCols)
           g == invokePopScrollbackLine(f, vtCols, "flush", "popped")
       IN /\ stack' = SetTop(t, IF g.pc = "inHost" THEN g
                                ELSE [g EXCEPT !.acks = Append(@, 0)])
          /\ hostLines' = IF asked /\ hostLines # <<>>
                          THEN SubSeq(hostLines, 1, Len(hostLines) - 1) ELSE hostLines
          /\ sbBuffer' = IF g.pc = "inHost" THEN sbBuffer ELSE ZeroedBuffer(vtCols)
    /\ UNCHANGED <<sessionVars, vtRows, vtCols, screen, colors, defaultFg, defaultBg,
                   damaged, lockVars, codecVars, mHandlers, hostCode, teardownVars, poolVars>>

\* the row the engine makes of the cells it got back: it steps by each
\* cell's width and puts a placeholder after a width-2 cell
RECURSIVE TakenFrom(_, _)
TakenFrom(cells, i) ==
    IF i > Len(cells) THEN {}
    ELSE {i} \cup TakenFrom(cells, i + Max(cells[i].width, 1))

RestoredRow(cells) ==
    [c \in 0 .. Len(cells) - 1 |->
        IF c + 1 \in TakenFrom(cells, 1)
        THEN ScreenCell(cells[c + 1].chars, cells[c + 1].fg, cells[c + 1].bg,
                        cells[c + 1].attrs)
        ELSE ScreenCell(<< Placeholder >>, cells[c].fg, cells[c].bg, cells[c].attrs)]

\* Terminal::invokePopScrollbackLine after the host's answer, and the engine
\* with the cells: the line goes in at the top, the rows below move down
PopResult(t) ==
    /\ At(t, "resize", "popped")
    /\ IF Top(t).loc.result = 0
       THEN /\ stack' = SetTop(t, [Top(t) EXCEPT !.pc = "flush", !.acks = Append(@, 0)])
            /\ UNCHANGED screen
       ELSE LET cells == poppedCells(Top(t).loc.cellArray, vtCols, sbBuffer)
            IN /\ stack' = SetTop(t, [Top(t) EXCEPT !.pc = "flush", !.loc.cells = cells,
                                                    !.acks = Append(@, 1)])
               /\ screen' = [r \in 0 .. vtRows - 1 |->
                                IF r = 0 THEN RestoredRow(cells) ELSE screen[r - 1]]
    /\ sbBuffer' = ZeroedBuffer(vtCols)
    /\ UNCHANGED <<sessionVars, vtRows, vtCols, colors, defaultFg, defaultBg, damaged,
                   lockVars, codecVars, hostVars, teardownVars, poolVars>>

(* ------------------------- scrollback scenarios ------------------------ *)
\* columns of the scrollback scenarios
ScrollCols == 6

\* the rows on screen at the start: glyph a in columns 0..2, glyph b from
\* column 3 on
ScrollGlyphsA == { Styled(<<65>>, 1, StyleA), Styled(<<19990>>, 2, StyleA) }
ScrollGlyphsB ==
    { Styled(<<65>>, 1, StyleA), Styled(<<66>>, 1, StyleB),
      Styled(<<67>>, 1, StyleBlink),
      Styled(<<128512>>, 1, StyleA), Styled(<<19990>>, 2, StyleA) }

\* the methods the host may have
HandlerSets == { AllHandlers, AllHandlers \ {"popScrollbackLine"}, {} }

InitScroll ==
    /\ \E a \in ScrollGlyphsA, b \in ScrollGlyphsB, h \in HandlerSets :
          StartedWith("vt", "vts", 1, ScrollCols, TRUE,
                      [r \in {0} |-> PatternRow(a, b, 3, ScrollCols)], h)
    /\ codecIdle

CallScroll(t) ==
    /\ stack[t] = <<>>
    /\ \/ Call(t, "writeInput", << MaxInput + 1 >>)
       \/ Call(t, "resize", << 2, ScrollCols >>)
       \/ Call(t, "reset", <<>>)
       \/ \E a \in KeyArgs : Call(t, "dispatchKey", a)

NextScroll ==
    \/ CallScroll("t1")
    \/ AcquireLock("t1")
    \/ WriteInputBody("t1")
    \/ ParseScroll("t1")
    \/ ParseCallback("t1")
    \/ ParseDone("t1")
    \/ FlushDamage("t1")
    \/ Flushed("t1")
    \/ ResizeBody("t1")
    \/ PopRequest("t1")
    \/ PopResult("t1")
    \/ ResetBody("t1")
    \/ DispatchBody("t1")
    \/ HostReturn("t1")
    \/ Return("t1")

SpecScroll == InitScroll /\ [][NextScroll]_vars

(* --------------------------- palette scenarios ------------------------- *)
\* the jintArray the host passes, of two and of seventeen colours with the
\* alpha byte set or clear, and the count it passes with it
ShortPalette == << ArgbB, ArgbA >>
LongPalette == [i \in 1 .. 17 |-> JintArgb(IF i % 2 = 0 THEN 255 ELSE 0, i, 2 * i, 255 - i)]

PaletteCalls ==
    { << ShortPalette, n >> : n \in {-1, 0, 1, 2} }
    \cup { << LongPalette, n >> : n \in {-1, 3, 16, 17} }

InitPalette ==
    /\ \E dmg \in BOOLEAN : Constructed("vt", "vts", 1, 2, dmg)
    /\ codecIdle

CallPalette(t) ==
    /\ stack[t] = <<>>
    /\ \/ \E a \in PaletteCalls : Call(t, "setPaletteColors", a)
       \/ \E a \in DefaultArgs : Call(t, "setDefaultColors", a)

NextPalette ==
    \/ CallPalette("t1")
    \/ AcquireLock("t1")
    \/ SetPaletteBody("t1")
    \/ SetDefaultBody("t1")
    \/ NotifyFullDamage("t1")
    \/ HostReturn("t1")
    \/ Return("t1")

SpecPalette == InitPalette /\ [][NextPalette]_vars

(* -------------------------- callback scenarios ------------------------- *)
\* hosts that lack no method, one method, or every method besides damage
RouterHandlers ==
    {AllHandlers, {}} \cup { AllHandlers \ {h} : h \in AllHandlers }

\* modifier masks the host passes
ModifierMasks == {0, 1, 2, 4, 7, 8, 13}

InitRouter ==
    /\ \E h \in RouterHandlers, dmg \in BOOLEAN, code \in HostCodes :
          StartedAnswering("vt", "vts", 1, 2, dmg, NewScreen(1, 2), h, code)
    /\ codecIdle

CallRouter(t) ==
    /\ stack[t] = <<>>
    /\ \/ Call(t, "writeInput", << MaxInput + 1 >>)
       \/ \E m \in ModifierMasks : Call(t, "dispatchKey", << m, 13 >>)
       \/ \E m \in ModifierMasks : Call(t, "dispatchCharacter", << m, 128512 >>)

NextRouter ==
    \/ CallRouter("t1")
    \/ AcquireLock("t1")
    \/ WriteInputBody("t1")
    \/ ParseScroll("t1")
    \/ ParseCallback("t1")
    \/ ParseDone("t1")
    \/ FlushDamage("t1")
    \/ Flushed("t1")
    \/ DispatchBody("t1")
    \/ HostReturn("t1")
    \/ Return("t1")

SpecRouter == InitRouter /\ [][NextRouter]_vars

(* ============================ properties ============================== *)
\* every frame in progress, on every thread
Frames == UNION { { stack[t][i] : i \in 1 .. Len(stack[t]) } : t \in Threads }

\* the getCellRun frames that went through an engine screen
RunFrames == { f \in Frames : f.op = "getCellRun" /\ f.pc \in {"scan", "fill", "ret", "crashed"}
                              /\ f.loc.read /\ ~f.loc.wild }

\* the style of the cell the engine holds at (r, c)
StyleAt(r, c) == << GetCell(r, c).fg, GetCell(r, c).bg, GetCell(r, c).attrs >>

(* ------------------------------ getCellRun ---------------------------- *)
\* C4: in getCellRun the units accumulated for a run never exceed the
\* capacity of 256, whatever the cells hold: chars[] is never written at an
\* index >= 256 and the returned run length is <= 256.
RunWithinCapacity ==
    \A f \in Frames :
        f.op = "getCellRun" /\ f.pc # "lock" /\ f.pc # "body" =>
            Len(f.loc.units) <= RunCapacity /\ f.rv <= RunCapacity

\* C5: every cell whose units are in a run has the fg, the bg and every
\* attribute of the reference cell at the start column, and the colours and
\* attributes set on the run are the reference cell's.
RunHasOneStyle ==
    \A f \in RunFrames :
        LET row == f.args[1]
            col == f.args[2]
        IN /\ \A i \in 1 .. Len(f.loc.cols) : StyleAt(row, f.loc.cols[i]) = StyleAt(row, col)
           /\ f.loc.run # NoRun =>
                /\ f.loc.run.fg = resolveColor(GetCell(row, col).fg)
                /\ f.loc.run.bg = resolveColor(GetCell(row, col).bg)
                /\ f.loc.run.attrs = GetCell(row, col).attrs

\* a run that took the cell after a change of glyph, of the same style
RunSpansGlyphs ==
    \E f \in RunFrames :
        /\ f.pc = "ret"
        /\ f.loc.run # NoRun
        /\ Len(f.loc.cols) >= 2
        /\ Len(f.loc.cols) < mCols - f.args[2]
        /\ \E i \in 1 .. Len(f.loc.cols) :
              GetCell(f.args[1], f.loc.cols[i]).chars # GetCell(f.args[1], f.args[2]).chars

\* a row of width-1 cells with at most one codepoint <= U+FFFF each
SimpleRow(row) ==
    \A c \in 0 .. vtCols - 1 :
        LET chars == screen[row][c].chars
        IN chars = <<>> \/ (Len(chars) = 1 /\ chars[1] >= 0 /\ chars[1] <= 65535)

\* the number of consecutive columns from col on in the style of column col
SameStyleCount(row, col) ==
    LET other == { c \in col .. mCols - 1 : StyleAt(row, c) # StyleAt(row, col) }
    IN IF other = {} THEN mCols - col
       ELSE (CHOOSE c \in other : \A d \in other : c <= d) - col

\* the getCellRun frames about to return from a query inside a simple row
SimpleQueries ==
    { f \in RunFrames : f.pc = "ret" /\ ~OutOfBounds(f.args[1], f.args[2])
                        /\ SimpleRow(f.args[1]) }

\* C6: on a row of width-1 cells with at most one codepoint <= U+FFFF each,
\* getCellRun(row, c) returns min(256, k), k the number of consecutive
\* columns from c on in the style of column c.
SimpleRunLength ==
    \A f \in SimpleQueries : f.rv = Min(RunCapacity, SameStyleCount(f.args[1], f.args[2]))

\* the 10-column row with styles changing at column 5, asked at column 7:
\* the answer is 3
SimpleRunOfThree ==
    \E f \in SimpleQueries :
        /\ mCols = 10
        /\ f.args[2] = 7
        /\ StyleAt(0, 4) # StyleAt(0, 5)
        /\ f.rv = 3

\* a simple row longer than the capacity, in one style: the answer is 256
SimpleRunCapped ==
    \E f \in SimpleQueries : SameStyleCount(f.args[1], f.args[2]) > RunCapacity /\ f.rv = RunCapacity

\* C7: getCellRun returns 0 exactly when the session has no engine screen or
\* (row, col) is outside the stored dimensions, and then it reads nothing
\* from the engine and sets nothing on the run; otherwise it returns >= 1.
ZeroIffNoScreenOrOutside ==
    \A f \in Frames :
        f.op = "getCellRun" /\ f.pc \in {"ret", "crashed"} =>
            LET empty == mVts # "vts" \/ OutOfBounds(f.args[1], f.args[2])
            IN /\ f.pc = "ret"
               /\ f.rv = 0 <=> empty
               /\ empty => ~f.loc.read /\ f.loc.run = NoRun
               /\ ~empty => f.rv >= 1

(* -------------------------------- codec ------------------------------- *)
\* C3: for every valid UTF-8 byte string s, NUL bytes and 4-byte sequences
\* included, mutf8_to_utf8(utf8_to_mutf8(s)) is s, byte for byte and of the
\* same length.
CodecRoundTrip == cpc = "dec" => back = utf8 /\ Len(back) = Len(utf8)

\* a string with a NUL and a 4-byte sequence has gone there and back, and
\* its encoding is longer than the string itself
RoundTripOfNulAndPair ==
    /\ cpc = "dec"
    /\ \E i \in 1 .. Len(utf8) : utf8[i] = 0
    /\ \E i \in 1 .. Len(utf8) : IsLead4(utf8[i])
    /\ Len(mutf8) > Len(utf8)

\* out is in with each NUL byte written as C0 80, each 4-byte sequence as
\* some six bytes, and every other byte as it is
RECURSIVE NulEscaped(_, _)
NulEscaped(in, out) ==
    IF in = <<>> THEN out = <<>>
    ELSE IF Head(in) = 0
         THEN /\ Len(out) >= 2
              /\ SubSeq(out, 1, 2) = << 192, 128 >>
              /\ NulEscaped(Tail(in), SubSeq(out, 3, Len(out)))
    ELSE IF Head(in) \div 8 = 30
         THEN /\ Len(in) >= 4
              /\ Len(out) >= 6
              /\ NulEscaped(SubSeq(in, 5, Len(in)), SubSeq(out, 7, Len(out)))
    ELSE /\ out # <<>>
         /\ Head(out) = Head(in)
         /\ NulEscaped(Tail(in), Tail(out))

\* C27: utf8_to_mutf8 writes every NUL byte of a UTF-8 string as the two
\* bytes C0 80 and every other 1-, 2- and 3-byte sequence unchanged: a lone
\* NUL comes out as exactly C0 80, and no byte of the output is 00.
NulBecomesTwoBytes ==
    cpc # "in" =>
        /\ NulEscaped(utf8, mutf8)
        /\ utf8 = << 0 >> => mutf8 = << 192, 128 >>
        /\ \A i \in 1 .. Len(mutf8) : mutf8[i] # 0

\* NUL, U+0800, NUL has been encoded as C0 80, E0 A0 80, C0 80
NulsAroundThreeBytes ==
    /\ cpc = "enc"
    /\ utf8 = << 0, 224, 160, 128, 0 >>
    /\ mutf8 = << 192, 128, 224, 160, 128, 192, 128 >>

\* the codepoint a 4-byte sequence stands for
CodepointOf(bytes) ==
    (bytes[1] - 240) * 262144 + (bytes[2] - 128) * 4096
        + (bytes[3] - 128) * 64 + (bytes[4] - 128)

\* the 3-byte sequence of a UTF-16 code unit from 0x0800 up
ThreeBytes(unit) ==
    << 224 + (unit \div 4096), 128 + ((unit \div 64) % 64), 128 + (unit % 64) >>

\* the code unit a 3-byte sequence stands for
UnitOf(bytes) == (bytes[1] - 224) * 4096 + (bytes[2] - 128) * 64 + (bytes[3] - 128)

\* C28: the 4-byte sequence of a codepoint cp of U+10000 .. U+10FFFF is
\* encoded as six bytes, the 3-byte sequence of the high surrogate
\* 0xD800 + ((cp - 0x10000) >> 10) and then that of the low surrogate
\* 0xDC00 + ((cp - 0x10000) & 0x3FF), and these six bytes are decoded to the
\* four bytes of 0x10000 + ((high - 0xD800) << 10) + (low - 0xDC00), the
\* original ones.
SupplementaryAsSurrogates ==
    LET cp == CodepointOf(utf8)
        high == 55296 + ((cp - 65536) \div 1024)
        low == 56320 + ((cp - 65536) % 1024)
    IN /\ cpc # "in" =>
            /\ cp >= 65536 /\ cp <= 1114111
            /\ Len(mutf8) = 6
            /\ mutf8 = ThreeBytes(high) \o ThreeBytes(low)
       /\ cpc = "dec" =>
            /\ Len(back) = 4
            /\ CodepointOf(back) =
                   65536 + (UnitOf(SubSeq(mutf8, 1, 3)) - 55296) * 1024
                         + (UnitOf(SubSeq(mutf8, 4, 6)) - 56320)
            /\ back = utf8

\* U+10FFFF has gone to ED AF BF ED BF BF and back to F4 8F BF BF
LastCodepointThereAndBack ==
    /\ cpc = "dec"
    /\ utf8 = << 244, 143, 191, 191 >>
    /\ mutf8 = << 237, 175, 191, 237, 191, 191 >>
    /\ back = << 244, 143, 191, 191 >>

\* C29: mutf8_to_utf8 never expands, whatever bytes it is given: each turn
\* of its loop writes at most as many bytes as it consumes, so what is
\* written never exceeds what has been read nor the input's length, and
\* the terminator falls inside the buffer of len + 1 bytes.
DecoderNeverExpands ==
    /\ [](/\ Len(back) <= cpp
          /\ cpp <= Len(mutf8)
          /\ Len(back) + 1 <= Len(mutf8) + 1)
    /\ [][Len(back') - Len(back) <= cpp' - cpp]_vars

\* C0 80 has shrunk to a NUL and the cut-off pair after it was copied as
\* it was: six bytes read, five written
ShrunkAndCutOff ==
    /\ cpc = "dec"
    /\ mutf8 = << 192, 128, 237, 160, 128, 237 >>
    /\ back = << 0, 237, 160, 128, 237 >>
    /\ cpp = 6

(* -------------------------------- mLock ------------------------------- *)
\* thread t is inside an operation: one of its frames has passed the lock
Inside(t) == \E i \in 1 .. Len(stack[t]) : stack[t][i].pc # "lock"

\* the units of the cells of the given columns, as the grid holds them now
RECURSIVE UnitsOfCols(_, _)
UnitsOfCols(row, cols) ==
    IF cols = <<>> THEN <<>>
    ELSE CellUnits(GetCell(row, Head(cols))) \o UnitsOfCols(row, Tail(cols))

\* the step changed what the session or the engine holds
StateChanged == sessionVars' # sessionVars \/ engineVars' # engineVars

\* C1: at most one thread at a time is inside an operation; a thread that
\* calls while another is inside (a host notification included) stays at the
\* lock, and only the thread inside changes session or engine state, so what
\* a getCellRun has read so far is what the row holds.
OneThreadInside ==
    /\ [](/\ \A t, u \in Threads : Inside(t) /\ Inside(u) => t = u
          /\ \A t \in Threads : Inside(t) => lockOwner = t
          /\ \A f \in RunFrames :
                f.pc \in {"scan", "fill"} =>
                    /\ f.loc.cell = GetCell(f.args[1], f.args[2])
                    /\ f.loc.units = UnitsOfCols(f.args[1], f.loc.cols))
    /\ [][StateChanged =>
            \E t \in Threads : /\ Inside(t)
                               /\ \A u \in Threads \ {t} : stack'[u] = stack[u]]_vars

\* one thread is in the host's damage handler during writeInput while the
\* other has called getCellRun and waits at the lock
WaitsWhileOtherInHost ==
    \E t, u \in Threads :
        /\ t # u
        /\ At(t, "writeInput", "inHost")
        /\ At(u, "getCellRun", "lock")
        /\ screen[0][0].chars # <<>>

\* C2: an operation called on the same thread from inside a host
\* notification takes the lock without waiting and runs on while the outer
\* operation stays in the host; the lock is free exactly when no operation
\* is inside, that is once the outermost has returned.
NestedCallsRunOn ==
    /\ \A t \in Threads : Depth(t) >= 2 =>
          /\ ENABLED (Step(t) \/ PrintBold(t))
          /\ \A i \in 1 .. Depth(t) - 1 : stack[t][i].pc = "inHost"
    /\ lockOwner = NoThread <=> \A t \in Threads : ~Inside(t)
    /\ lockCount = Cardinality({ << t, i >> \in Threads \X (1 .. MaxDepth) :
                                    i <= Depth(t) /\ stack[t][i].pc # "lock" })

\* a nested operation holds the lock a second time inside a damage
\* notification of writeInput
NestedHoldsLock ==
    \E t \in Threads :
        /\ Depth(t) = 2
        /\ stack[t][1].op = "writeInput"
        /\ stack[t][1].pc = "inHost"
        /\ Top(t).pc = "ret"
        /\ lockCount = 2

(* ------------------------------- colours ------------------------------ *)
ColourSetters == {"setPaletteColors", "setDefaultColors"}

\* the engine holds the colours the setter was called with
ColoursSet(f) ==
    IF f.op = "setDefaultColors"
    THEN defaultFg = ArgbToRgb(f.args[1]) /\ defaultBg = ArgbToRgb(f.args[2])
    ELSE \A i \in 0 .. Min(f.args[2], 16) - 1 : colors[i] = ArgbToRgb(f.args[1][i + 1])

\* the step in which a colour setter reaches its invokeDamage
SetterNotifies(t) ==
    /\ stack[t] # <<>>
    /\ Top(t).op \in ColourSetters
    /\ Top(t).pc = "notify"
    /\ stack'[t] # stack[t]

\* C8: with an engine and a damage handler, setPaletteColors and
\* setDefaultColors each issue exactly one damage notification, for
\* (0, rows, 0, cols) of the stored dimensions, after the colours are set.
SettersDamageFullGrid ==
    /\ [](mVt = "vt" /\ mDamageMethod =>
            \A f \in Frames : f.op \in ColourSetters =>
                /\ Len(f.sent) <= 1
                /\ f.pc \in {"inHost", "ret"} =>
                      Len(f.sent) = 1 /\ f.sent[1].kind = "damage")
    /\ [][\A t \in Threads :
            SetterNotifies(t) /\ mDamageMethod =>
                /\ stack'[t][Len(stack'[t])].sent
                      = << Note("damage", << 0, mRows, 0, mCols >>) >>
                /\ ColoursSet(Top(t))]_vars

\* setDefaultColors is in the host's damage handler, after a resize the
\* engine refused changed the stored dimensions
SetterInDamageHandler ==
    /\ At("t1", "setDefaultColors", "inHost")
    /\ Top("t1").sent = << Note("damage", << 0, mRows, 0, mCols >>) >>
    /\ defaultFg = ArgbToRgb(ArgbA)
    /\ mRows # vtRows

\* C9: a colour reference tagged default foreground (background) resolves
\* to the foreground (background) last set by setDefaultColors, also when a
\* cell written before the change holds it and it carries a payload.
DefaultRefsFollowSetting ==
    mVt = "vt" =>
        \A r \in 0 .. vtRows - 1, c \in 0 .. vtCols - 1 :
            /\ ColorIsDefaultFg(screen[r][c].fg) => resolveColor(screen[r][c].fg) = defaultFg
            /\ ColorIsDefaultBg(screen[r][c].bg) => resolveColor(screen[r][c].bg) = defaultBg

(* ------------------------------- resize ------------------------------- *)
\* C10: the stored row count and column count are both >= 1, after
\* construction and after every resize, whatever its arguments.
StoredDimsPositive == mRows >= 1 /\ mCols >= 1


\* the step in which thread t runs the body of resize
ResizeRuns(t) == At(t, "resize", "body") /\ stack'[t] # stack[t]

\* C11: the stored rows and columns are the engine's grid dimensions as of
\* the last resize the engine performed; a resize the engine does not
\* perform (no engine, or dimensions it rejects) leaves them as they were.
StoredDimsAreEngineDims ==
    /\ [](mVt = "vt" => mRows = vtRows /\ mCols = vtCols)
    /\ [][\A t \in Threads :
            ResizeRuns(t) /\ ~(mVt = "vt" /\ EngineAccepts(Top(t).args[1], Top(t).args[2]))
                => mRows' = mRows /\ mCols' = mCols]_vars

(* --------------------------- failed engine ---------------------------- *)
\* the values an operation returns when it does nothing
Unavailable == {0, -1, FALSE}

\* C12: on a session whose engine failed to construct every operation is a
\* no-op: it returns its zero / false / unavailable value, notifies nobody,
\* reads no engine and leaves the session, stored rows and columns included,
\* as it was.
FailedEngineDoesNothing ==
    /\ [](mVt = "null" =>
            \A f \in Frames :
                /\ f.sent = <<>>
                /\ f.pc # "crashed"
                /\ f.pc = "ret" => f.rv \in Unavailable
                /\ f.op \in {"getCellRun", "reset"} /\ f.pc = "ret" /\ f.loc # <<>>
                      => ~f.loc.read)
    /\ [][mVt = "null" => UNCHANGED <<sessionVars, engineVars>>]_vars

(* ----------------------------- wide cells ----------------------------- *)
\* C20: getCellRun never takes the units of a run from the placeholder
\* column of a wide cell, whatever the start column, and a width-2 cell
\* moves the scan on by two columns.
RunSkipsPlaceholders ==
    \A f \in RunFrames :
        /\ \A i \in 1 .. Len(f.loc.cols) : ~IsPlaceholder(screen[f.args[1]][f.loc.cols[i]])
        /\ \A i \in 1 .. Len(f.loc.cols) - 1 :
              f.loc.cols[i + 1] = f.loc.cols[i] + GetCell(f.args[1], f.loc.cols[i]).width

(* ------------------------------ teardown ------------------------------ *)
\* the references to host objects the session retains
HostRefs == {"mCallbacks", "mCellRunClass", "classes"}

\* C15: ~Terminal frees the engine before it releases any retained host
\* reference (none is released while the session still has its engine), and
\* nothing is released twice.
EngineFreedFirst ==
    /\ [](\A i, j \in 1 .. Len(released) : released[i] = released[j] => i = j)
    /\ [][\A r \in HostRefs :
            (\E i \in 1 .. Len(released') : released'[i] = r)
            /\ ~(\E i \in 1 .. Len(released) : released[i] = r)
                => mVt = "null"]_vars

\* the teardown of a session with an engine has run to its end
TornDown ==
    /\ Deleted
    /\ Len(released) = Len(TeardownOrder)
    /\ released[1] = "engine"

\* C16: once the engine has been freed no host notification is invoked and
\* no operation reads or drives the freed engine, be it reset or getCellRun,
\* be it one that waited at the lock during teardown or one called later.
NothingAfterTeardown ==
    life = "teardown" =>
        \A f \in Frames :
            f.op # "destroy" =>
                /\ f.sent = <<>>
                /\ f.loc # <<>> /\ f.op \in {"reset", "getCellRun"} => ~f.loc.read

(* ------------------------------ feedInput ----------------------------- *)
\* writeInput frames about to return on a session with an engine
InputReturns == { f \in Frames : f.op = "writeInput" /\ f.pc = "ret" /\ mVt = "vt" }

\* C14: when writeInput returns on a session with an engine the engine holds
\* no pending damage, every damage region the engine reported during the
\* call has been delivered to the host's damage handler, and the value
\* returned is the number of bytes consumed.
InputFlushedOnReturn ==
    \A f \in InputReturns :
        /\ damaged = NoRect
        /\ f.rv = f.args[1] - f.loc.left
        /\ mDamageMethod =>
              \A i \in 1 .. Len(f.events) :
                  f.events[i].kind = "damage" =>
                      /\ f.events[i].at < Len(f.sent)
                      /\ f.sent[f.events[i].at + 1] = Note("damage", f.events[i].a)

\* a writeInput that consumed a byte, damaged the screen and told the host
InputDamageDelivered ==
    \E f \in InputReturns :
        /\ f.rv = 1
        /\ f.events # <<>>
        /\ f.sent = << Note("damage", << 0, 1, 1, 2 >>) >>

(* ------------------------------ callbacks ----------------------------- *)
\* the operations during which the engine calls back
Routed == {"writeInput", "resize", "reset", "dispatchKey"}

\* the host method an entry of the callback table ends in
HostMethod(kind) ==
    CASE kind = "damage" -> "damage"
      [] kind = "moverect" -> "moverect"
      [] kind = "movecursor" -> "moveCursor"
      [] kind = "settermprop" -> "setTermProp"
      [] kind = "bell" -> "bell"
      [] kind = "sb_pushline" -> "pushScrollbackLine"
      [] kind = "sb_popline" -> "popScrollbackLine"
      [] kind = "output" -> "onKeyboardInput"
      [] kind = "osc" -> "onOscSequence"

\* the kind of the notification the host sees
NoteKind(kind) == IF kind = "output" THEN "keyboard" ELSE HostMethod(kind)

\* events that are to reach the host: the host has the method, and a string
\* property has content
Delivered(e) ==
    /\ IF e.kind = "damage" THEN mDamageMethod ELSE HostMethod(e.kind) \in mHandlers
    /\ ~(e.kind = "settermprop" /\ e.a[2].type = "string" /\ e.a[2].v = NullString)

\* C13: the notifications of one writeInput / resize / reset / dispatchKey
\* call are the engine's callback events of that call that are not dropped,
\* in the same order, one notification per event, each issued at the moment
\* of its event and so before the call returns.
EventsAreNotifications ==
    \A f \in Frames :
        f.op \in Routed =>
            LET kept == SelectSeq(f.events, Delivered)
            IN /\ Len(f.sent) = Len(kept)
               /\ \A i \in 1 .. Len(kept) :
                     /\ f.sent[i].kind = NoteKind(kept[i].kind)
                     /\ kept[i].at = i - 1
                     /\ kept[i].kind \in {"damage", "output"} => f.sent[i].a = kept[i].a

\* a call with three events, the second one dropped
ThreeEventsTwoNotes ==
    \E f \in Frames :
        /\ f.op = "writeInput"
        /\ f.pc = "ret"
        /\ Len(f.events) = 3
        /\ f.events[1].kind = "sb_pushline"
        /\ f.events[2].kind = "settermprop"
        /\ f.events[3].kind = "damage"
        /\ Len(f.sent) = 2
        /\ f.sent[2].kind = "damage"
        /\ mHandlers = AllHandlers

(* ------------------------------ scrollback ---------------------------- *)
\* C17: the host's popScrollbackLine never runs on a thread inside
\* writeInput or resize, which holds the lock.
NoHostPopUnderLock ==
    \A t \in Threads :
        \A i \in 1 .. Len(stack[t]) :
            LET f == stack[t][i]
            IN f.op \in {"writeInput", "resize"} /\ lockOwner = t =>
                  \A k \in 1 .. Len(f.sent) : f.sent[k].kind # "popScrollbackLine"

\* the codepoints a cell shows (an erased cell shows a space)
Codepoints(cell) == IF cell.chars = <<>> THEN << 32 >> ELSE cell.chars

\* same codepoints, width, resolved colours and style flags
SameCell(a, b) ==
    /\ Codepoints(a) = Codepoints(b)
    /\ a.width = b.width
    /\ resolveColor(a.fg) = resolveColor(b.fg)
    /\ resolveColor(a.bg) = resolveColor(b.bg)
    /\ a.attrs.bold = b.attrs.bold
    /\ a.attrs.italic = b.attrs.italic
    /\ a.attrs.underline = b.attrs.underline
    /\ a.attrs.reverse = b.attrs.reverse
    /\ a.attrs.strike = b.attrs.strike

\* C18: when the host hands back the entries it was given for a row, the
\* cells the bridge restores are, column by column, the cells of that row:
\* same codepoints, width, resolved colours and style flags.
PopRestoresPushedRow ==
    \A f \in Frames :
        f.op = "resize" /\ f.loc # <<>> /\ f.loc.cells # <<>> =>
            \A i \in 1 .. Len(f.loc.row) :
                ~IsPlaceholder(f.loc.row[i]) => SameCell(f.loc.cells[i], f.loc.row[i])

\* the pushes that reached the host, as <<row, count, entries>>
Pushes ==
    UNION { { << f.events[i].a, f.sent[f.events[i].at + 1].a[1],
                 f.sent[f.events[i].at + 1].a[2] >> :
                i \in { j \in 1 .. Len(f.events) :
                          /\ f.events[j].kind = "sb_pushline"
                          /\ "pushScrollbackLine" \in mHandlers } } :
            f \in { g \in Frames : g.op = "writeInput" } }

\* the columns (from 1) of a row that hold no placeholder
ContentColumns(row) == { i \in 1 .. Len(row) : ~IsPlaceholder(row[i]) }

\* C19: a pushed line has one entry per cell that is no placeholder, in
\* column order, so none for the column after a width-2 cell, and the count
\* handed to the host is the column count less the number of width-2 cells.
PushSkipsPlaceholders ==
    \A p \in Pushes :
        LET row == p[1]
            count == p[2]
            entries == p[3]
        IN /\ count = Len(entries)
           /\ count = Len(row) - Cardinality({ i \in 1 .. Len(row) : row[i].width = 2 })
           /\ count = Cardinality(ContentColumns(row))
           /\ \A i \in ContentColumns(row) :
                 entries[Cardinality({ j \in ContentColumns(row) : j <= i })]
                     = screenCell(row[i])

\* a row with a width-2 cell in column 3 was pushed as five entries
WideRowPushed ==
    \E p \in Pushes :
        /\ Len(p[1]) = ScrollCols
        /\ p[1][4].width = 2
        /\ IsPlaceholder(p[1][5])
        /\ p[2] = ScrollCols - 1
        /\ p[3][4].width = 2
        /\ p[3][5].char = 19990

(* -------------------------- callback router --------------------------- *)
\* the events of every frame, as <<frame, index>>
EventsOf(kinds) ==
    UNION { { << f, i >> : i \in { j \in 1 .. Len(f.events) : f.events[j].kind \in kinds } } :
            f \in Frames }

\* the notifications issued for event i of frame f so far
NotesOf(f, i) ==
    (IF i < Len(f.events) THEN f.events[i + 1].at ELSE Len(f.sent)) - f.events[i].at

\* the notification issued at event i of frame f
NoteAt(f, i) == f.sent[f.events[i].at + 1]

\* string-valued property events with content
StringProps ==
    { p \in EventsOf({"settermprop"}) :
        /\ p[1].events[p[2]].a[2].type = "string"
        /\ p[1].events[p[2]].a[2].v # NullString }

\* C21: the bytes the host string of a string-valued property is built from
\* are utf8_to_mutf8 of the engine's string fragment.
StringPropIsHostEncoded ==
    \A p \in StringProps :
        "setTermProp" \in mHandlers =>
            NoteAt(p[1], p[2]).a[2] = << "String", utf8_to_mutf8(p[1].events[p[2]].a[2].v, 0) >>

\* the value a property event is to carry to the host
ResolvedValue(val) ==
    CASE val.type = "bool" -> << "Bool", val.v >>
      [] val.type = "int" -> << "Int", val.v >>
      [] val.type = "color" -> << "Color", resolveColor(val.v) >>

HostCodePassedThrough ==
    /\ \A p \in EventsOf({"moverect", "osc"}) :
          LET f == p[1]
              i == p[2]
              has == HostMethod(f.events[i].kind) \in mHandlers
          IN /\ i <= Len(f.acks) => f.acks[i] = IF has THEN hostCode ELSE 0
             /\ NotesOf(f, i) = IF has THEN 1 ELSE 0
             /\ has => NoteAt(f, i).kind = HostMethod(f.events[i].kind)
    /\ \A f \in Frames :
          f.op = "writeInput" =>
              \A k \in 1 .. Len(f.sent) :
                  f.sent[k].kind = "damage" =>
                      \E j \in 1 .. Len(f.events) :
                          f.events[j].kind = "damage" /\ f.events[j].at = k - 1

\* a host that answers 7 to a moverect and to an OSC sequence, and the
\* engine got 7 for both
HostAnswerReachedEngine ==
    \E f \in Frames :
        /\ hostCode = 7
        /\ mHandlers = AllHandlers
        /\ Len(f.events) = 2
        /\ f.events[1].kind = "moverect"
        /\ f.events[2].kind = "osc"
        /\ f.acks = << 7, 7 >>
        /\ Len(f.sent) = 2

\* the callbacks that acknowledge
Acknowledging == {"damage", "movecursor", "settermprop", "bell", "sb_pushline"}

\* C24: damage, movecursor, settermprop, bell and scrollback push return 1
\* to the engine for every event, whatever the host's handler returned and
\* whether or not the host was notified.
AlwaysAcknowledged ==
    \A p \in EventsOf(Acknowledging) :
        /\ p[2] <= Len(p[1].acks) => p[1].acks[p[2]] = 1
        /\ p[1].pc \in {"parse", "flushed", "ret"} => p[2] <= Len(p[1].acks)

\* a host that answers 0 to bell, push and damage, each acknowledged with 1
AcknowledgedThoughDeclined ==
    \E f \in Frames :
        /\ hostCode = 0
        /\ mHandlers = AllHandlers
        /\ mDamageMethod
        /\ f.pc = "ret"
        /\ Len(f.events) = 3
        /\ f.events[1].kind = "bell"
        /\ f.events[2].kind = "sb_pushline"
        /\ f.events[3].kind = "damage"
        /\ Len(f.sent) = 3
        /\ f.acks = << 1, 1, 1 >>

\* C25: a method the host lacks disables its own notification and nothing
\* else: an event is notified exactly when the host has its method, the set
\* of methods never changes after construction, and writeInput hands every
\* byte to the engine and returns the count.
MissingHandlerDisablesOnlyItself ==
    /\ [](\A f \in Frames :
            /\ \A i \in 1 .. Len(f.events) :
                  /\ NotesOf(f, i) = IF Delivered(f.events[i]) THEN 1 ELSE 0
                  /\ Delivered(f.events[i]) => NoteAt(f, i).kind = NoteKind(f.events[i].kind)
            /\ f.op = "writeInput" /\ f.pc = "ret" =>
                  f.loc.left = 0 /\ f.rv = f.args[1])
    /\ [][mHandlers' = mHandlers /\ mDamageMethod' = mDamageMethod]_vars

\* without a property handler the property event is skipped, the bell rings
PropSkippedBellDelivered ==
    \E f \in Frames :
        /\ mHandlers = AllHandlers \ {"setTermProp"}
        /\ f.op = "writeInput"
        /\ f.pc = "ret"
        /\ f.rv = MaxInput + 1
        /\ Len(f.events) = 2
        /\ f.events[1].kind = "settermprop"
        /\ f.events[1].a[2].type = "bool"
        /\ f.events[2].kind = "bell"
        /\ f.sent = << Note("bell", <<>>) >>

(* ------------------------------ keyboard ------------------------------ *)
\* dispatch frames past the test of mVt on a session with an engine
Dispatched ==
    { f \in Frames : f.op \in {"dispatchKey", "dispatchCharacter"}
                     /\ f.pc \in {"inHost", "ret"} /\ mVt = "vt" }

\* C30: the engine gets shift, alt and ctrl from bits 0, 1 and 2 of the mask
\* and nothing from the higher bits, and the key or codepoint as passed; the
\* call returns true, and the output the key generates has reached the host
\* when the call returns.
KeyReachesEngineAndHost ==
    \A f \in Dispatched :
        /\ Len(f.events) = 1
        /\ f.events[1].kind = "output"
        /\ f.events[1].a = << f.args[1] % 8, f.args[2] >>
        /\ f.rv = TRUE
        /\ "onKeyboardInput" \in mHandlers =>
              f.sent = << Note("keyboard", f.events[1].a) >>

\* mask 13 (shift, ctrl and bit 3) reached the engine as shift + ctrl
MaskThirteenDispatched ==
    \E f \in Dispatched :
        /\ f.op = "dispatchCharacter"
        /\ f.pc = "ret"
        /\ f.args = << 13, 128512 >>
        /\ f.sent = << Note("keyboard", << 5, 128512 >>) >>

(* --------------------------- popped defaults -------------------------- *)
\* resize frames in which the host served the pop and the bridge has
\* filled the engine's cells
ServedPops ==
    { f \in Frames : f.op = "resize" /\ f.loc # <<>> /\ f.loc.cells # <<>> }

\* the columns (from 1) the host supplied no entry for
NullColumns(f) == { i \in 1 .. Len(f.loc.cellArray) : f.loc.cellArray[i] = NullCell }

\* C26: on a pop the host serves, every column the host supplied no entry
\* for comes back as the default cell: one space and no combining marks,
\* width 1, foreground (192,192,192) on background (0,0,0), and bold,
\* italic, underline, blink, reverse and strike all clear.
NullEntryIsDefaultCell ==
    \A f \in ServedPops :
        \A i \in NullColumns(f) :
            LET cell == f.loc.cells[i]
            IN /\ cell.chars = << 32 >>
               /\ cell.width = 1
               /\ cell.fg = ColorRgb(192, 192, 192)
               /\ cell.bg = ColorRgb(0, 0, 0)
               /\ cell.attrs.bold = 0
               /\ cell.attrs.italic = 0
               /\ cell.attrs.underline = 0
               /\ cell.attrs.blink = 0
               /\ cell.attrs.reverse = 0
               /\ cell.attrs.strike = 0

(* ----------------------------- re-querying ---------------------------- *)
\* the getCellRun frames that have filled a run and are about to return
FilledRuns == { f \in RunFrames : f.pc = "ret" /\ f.loc.run # NoRun }

\* the columns a run has consumed: those whose units it took, and the
\* second column of each width-2 cell among them
ConsumedColumns(f) ==
    { f.loc.cols[i] : i \in 1 .. Len(f.loc.cols) }
    \cup { f.loc.cols[i] + 1 : i \in { j \in 1 .. Len(f.loc.cols) :
                                        GetCell(f.args[1], f.loc.cols[j]).width = 2 } }

\* C31: the value getCellRun returns leads to the next unconsumed column:
\* the columns from the start column up to start + returned value - 1 are
\* exactly the columns the run consumed, so that re-querying at start +
\* returned value skips no column and reads none twice.
ReturnIsNextColumn ==
    \A f \in FilledRuns :
        ConsumedColumns(f) = f.args[2] .. f.args[2] + f.rv - 1

(* ------------------------------ run units ----------------------------- *)
\* the code units a codepoint stands for in UTF-16
UnitsOfCodepoint(cp) ==
    IF cp <= 65535 THEN << cp >>
    ELSE << 55296 + ((cp - 65536) \div 1024), 56320 + ((cp - 65536) % 1024) >>

RECURSIVE UnitsOfCodepoints(_)
UnitsOfCodepoints(cps) ==
    IF cps = <<>> THEN <<>>
    ELSE UnitsOfCodepoint(Head(cps)) \o UnitsOfCodepoints(Tail(cps))

\* what a cell adds to a run: a space when it has no primary codepoint
Contribution(cell) ==
    IF cell.chars = <<>> THEN << 32 >> ELSE UnitsOfCodepoints(cell.chars)

RECURSIVE Contributions(_, _)
Contributions(row, cols) ==
    IF cols = <<>> THEN <<>>
    ELSE Contribution(GetCell(row, Head(cols))) \o Contributions(row, Tail(cols))

\* the runs that scanned cells holding codepoints only
CodepointRuns ==
    { f \in FilledRuns :
        \A i \in 1 .. Len(f.loc.cols) : ~IsPlaceholder(screen[f.args[1]][f.loc.cols[i]]) }

\* C32: the code units of a run are what its scanned cells add, one after
\* the other in column order: one space for a cell with no primary
\* codepoint, else the cell's codepoints in order, each <= 0xFFFF as one
\* unit and each cp above as the pair 0xD800 + ((cp - 0x10000) >> 10),
\* 0xDC00 + ((cp - 0x10000) & 0x3FF).
RunUnitsAreCellContributions ==
    \A f \in CodepointRuns :
        /\ \A i \in 1 .. Len(f.loc.cols) - 1 : f.loc.cols[i] < f.loc.cols[i + 1]
        /\ f.loc.run.chars = Contributions(f.args[1], f.loc.cols)
        /\ f.loc.run.runLength = Len(f.loc.run.chars)

\* three erased cells, then seven cells a + U+1D167, in one run of 24 units
SpacesThenPairs ==
    \E f \in CodepointRuns :
        /\ f.args = << 0, 0 >>
        /\ Len(f.loc.cols) = 10
        /\ SubSeq(f.loc.run.chars, 1, 6) = << 32, 32, 32, 97, 55348, 56679 >>
        /\ f.rv = 24

(* --------------------------- colour resolver -------------------------- *)
\* the palette entry the engine holds for an index
EnginePalette(i) == IF i < 16 THEN colors[i] ELSE PaletteColor(i)

\* what a reference resolves to, where the reference says it: an indexed
\* one to the engine's palette entry, an RGB one to its own bytes, one of
\* no known tag to mid-grey
ResolvesAsReference(color, rgb) ==
    /\ ColorIsIndexed(color) => rgb = EnginePalette(color.b1)
    /\ ColorIsRgb(color) /\ ~ColorIsDefaultFg(color) /\ ~ColorIsDefaultBg(color) =>
          rgb = << color.b1, color.b2, color.b3 >>
    /\ ~ColorIsIndexed(color) /\ ~ColorIsRgb(color)
          /\ ~ColorIsDefaultFg(color) /\ ~ColorIsDefaultBg(color) =>
          rgb = << 128, 128, 128 >>

\* thread t resolves the colours of a run in this step
Resolving(t) == At(t, "getCellRun", "fill") /\ stack'[t] # stack[t]

\* C33: resolving a colour is a pure read that agrees with the reference:
\* Indexed(i) gives the palette entry i the engine holds now, so the new
\* one after setPaletteColors changed it; RGB(r,g,b) gives (r,g,b); a tag
\* that is none of Indexed, RGB, DefaultForeground, DefaultBackground gives
\* (128,128,128); and no session or engine state changes.
ResolverIsPureReference ==
    /\ [](\A f \in FilledRuns :
            /\ ResolvesAsReference(f.loc.cell.fg, f.loc.run.fg)
            /\ ResolvesAsReference(f.loc.cell.bg, f.loc.run.bg))
    /\ [][\A t \in Threads : Resolving(t) => UNCHANGED <<sessionVars, engineVars>>]_vars

\* a cell on palette entry 1 over RGB black, resolved after setPaletteColors
\* made entry 1 (0x11,0x22,0x33)
IndexedResolvedAfterChange ==
    \E f \in FilledRuns :
        /\ f.loc.cell.fg = ColorIndexed(1)
        /\ f.loc.cell.bg = ColorRgb(0, 0, 0)
        /\ colors[1] = << 17, 34, 51 >>
        /\ colors[1] # AnsiColors[1]
        /\ f.loc.run.fg = << 17, 34, 51 >>
        /\ f.loc.run.bg = << 0, 0, 0 >>

(* ----------------------------- the palette ---------------------------- *)
\* thread t runs the body of setPaletteColors on a session with an engine
\* in this step
SettingPalette(t) ==
    At(t, "setPaletteColors", "body") /\ mVt = "vt" /\ stack'[t] # stack[t]

\* the red, green and blue bytes of 0xAARRGGBB
RgbBytes(argb) == << (argb \div 65536) % 256, (argb \div 256) % 256, argb % 256 >>

\* C34: setPaletteColors(colors, count) changes exactly the entries
\* 0 .. min(count, 16) - 1 of the palette, entry i to the red, green and
\* blue bytes of colors[i]; the other entries, the default colours and the
\* stored dimensions stay as they were, and the call returns the number of
\* entries it set, a value in 0 .. 16.
PaletteSetsCountEntries ==
    [][\A t \in Threads :
         SettingPalette(t) =>
            LET given == Top(t).args[1]
                count == Top(t).args[2]
                set == { i \in 0 .. 15 : i < count }
            IN /\ \A i \in set : colors'[i] = RgbBytes(given[i + 1])
               /\ \A i \in (0 .. 15) \ set : colors'[i] = colors[i]
               /\ UNCHANGED <<defaultFg, defaultBg, mRows, mCols>>
               /\ stack'[t][Len(stack'[t])].rv = Cardinality(set)
               /\ stack'[t][Len(stack'[t])].rv \in 0 .. 16]_vars

(* --------------------------- encoder bounds --------------------------- *)
\* C35: utf8_to_mutf8 is memory-safe for every input of length len, also
\* one that ends in the middle of a multi-byte sequence: both passes read
\* only the input bytes at positions 0 .. len - 1, and pass 2 writes no
\* more bytes than the length pass 1 computed.
EncoderStaysInside ==
    cpc = "enc" =>
        /\ \A i \in Pass1Reads(utf8, 0) \cup Pass2Reads(utf8, 0) : i >= 0 /\ i < Len(utf8)
        /\ Len(mutf8) <= NeededFrom(utf8, 0)

\* ---------------------------------------------------------------------------
\* Delivered runs
\* ---------------------------------------------------------------------------

\* the CellRuns the host keeps that a call has filled, the units each one
\* shows now, and the arrays the threads stage units in
KeptRuns == { o \in DOMAIN runs : runs[o].chars # NoArray }
DeliveredUnits(o) == SubSeq(charArrays[runs[o].chars], 1, runs[o].runLength)
StagingArrays == { tlsCharArray[t].ref : t \in Threads } \ {NoArray}

\* C36: the units delivered in a CellRun are not altered by a later call: a
\* step that does not fill a kept CellRun leaves the units it shows as they
\* were, and no kept CellRun, which any host thread may read, refers to an
\* array a thread stages units in
DeliveredUnitsStay ==
    [][ /\ \A o \in KeptRuns :
              runs'[o] = runs[o] => DeliveredUnits(o)' = DeliveredUnits(o)
        /\ \A o \in DOMAIN runs : runs'[o].chars \notin StagingArrays' ]_vars

\* a later call on the same thread, into another CellRun, changed the units
\* an earlier CellRun shows
EarlierRunOverwritten ==
    /\ KeptRuns = {"run1", "run2"}
    /\ runs["run1"].chars = runs["run2"].chars
    /\ runs["run1"].runLength = 3
    /\ runs["run2"].runLength = PoolCols - 3
    /\ DeliveredUnits("run1") = << 66, 66, 66 >>
====
